---- MODULE Spec2Model ----
(***************************************************************************)
(* Model of the YQL typed-value layer (yb/common/yql_value.h): the         *)
(* YQLValuePB tagged union, the YQLValue static helpers, the               *)
(* YQLValueWithPB facade, the comparison operators and the CQL wire codec. *)
(*                                                                         *)
(* A YQLValuePB is a record                                                *)
(*   [value_case, num, str, keys, values, elems]                           *)
(* value_case is the oneof selector; num holds the numeric payloads        *)
(* (integers, bool as 0/1, float/double as a scaled number, timestamp),    *)
(* str the byte-string payloads (string, binary, decimal, inetaddress,     *)
(* uuid, timeuuid; a byte is 0..255), keys/values the two repeated fields  *)
(* of YQLMapValuePB and elems the repeated field of YQLSeqValuePB.  Fields *)
(* that are not selected by value_case hold their cleared defaults.        *)
(***************************************************************************)
EXTENDS Integers, Sequences, FiniteSets, TLC

VARIABLES
    v,        \* the facade's embedded record (YQLValueWithPB::value())
    pre,      \* v as it was before the last call
    op,       \* name of the last call
    arg,      \* argument of the last call, as passed
    ret,      \* what the last call returned (st = "CHECK": the process aborted)
    other,    \* source record of the last assignment, as it is after the call
    ptr,      \* element the caller still holds from the last add_* call
    x, y, z,  \* the records handed to the comparison functions
    cop,      \* which comparison functions were evaluated last
    cres,     \* their results
    ctype,    \* the YQLType handed to Serialize and Deserialize
    cval,     \* the record that is serialized
    buffer,   \* the faststring Serialize appends to
    produced, \* the bytes the last Serialize appended
    sent,     \* the bytes handed to Deserialize
    cursor,   \* the Slice cursor: what Deserialize has not consumed
    target,   \* the record Deserialize populates
    tpre,     \* target as it was before Deserialize
    cst,      \* status of the last codec call
    cphase,   \* how far the exchange has got
    bval,     \* a record a caller builds a collection in
    bpre,     \* b as it was before the last call
    bop,      \* name of the last call on b
    bptr,     \* element the builder still has to populate
    script,   \* what the builder stored in the elements, in the order stored
    row,      \* the QLRow handed to SetColumnValue
    rpre,     \* row as it was before the call
    vcol,     \* the column name handed to SetColumnValue
    vvalue,   \* the value handed to SetColumnValue
    vst       \* the Status SetColumnValue returned

facadeVars == <<v, pre, op, arg, ret, other, ptr>>

cmpVars == <<x, y, z, cop, cres>>

codecVars ==
    <<ctype, cval, buffer, produced, sent, cursor, target, tpre, cst, cphase>>

buildVars == <<bval, bpre, bop, bptr, script>>

vtVars == <<row, rpre, vcol, vvalue, vst>>

vars ==
    <<v, pre, op, arg, ret, other, ptr, x, y, z, cop, cres,
      ctype, cval, buffer, produced, sent, cursor, target, tpre, cst, cphase,
      bval, bpre, bop, bptr, script, row, rpre, vcol, vvalue, vst>>

-----------------------------------------------------------------------------
(* Bounds of the model. *)

\* longest repeated field a collection is grown to
MaxElems == 2

-----------------------------------------------------------------------------
(* YQLValuePB: the oneof and its cleared state. *)

VALUE_NOT_SET == "VALUE_NOT_SET"

ScalarCases ==
    {"int8_value", "int16_value", "int32_value", "int64_value", "float_value",
     "double_value", "decimal_value", "bool_value", "string_value",
     "timestamp_value", "binary_value", "inetaddress_value", "uuid_value",
     "timeuuid_value"}

CollectionCases == {"map_value", "set_value", "list_value"}

\* a default-constructed YQLValuePB: no oneof member selected
NullPB ==
    [value_case |-> VALUE_NOT_SET, num |-> 0, str |-> <<>>,
     keys |-> <<>>, values |-> <<>>, elems |-> <<>>]

\* two's complement narrowing of n to w bits (static_cast<intN_t>)
CastSigned(n, w) ==
    LET m == n % (2 ^ w)
    IN  IF m >= 2 ^ (w - 1) THEN m - 2 ^ w ELSE m

-----------------------------------------------------------------------------
(* Rich value types at the accessor boundary. *)

\* Uuid::ToBytes: the 16 bytes of the UUID
Uuid_ToBytes(uuid) == uuid.data

\* Uuid::FromBytes: accepts exactly 16 bytes
Uuid_FromBytes(bytes) ==
    IF Len(bytes) = 16 THEN [st |-> "OK", data |-> bytes]
                       ELSE [st |-> "InvalidArgument", data |-> <<>>]

\* Uuid::IsTimeUuid: the version nibble (high half of byte 6) is 1
Uuid_IsTimeUuid(uuid) ==
    IF Len(uuid.data) = 16 /\ (uuid.data[7] \div 16) = 1
    THEN "OK" ELSE "InvalidArgument"

\* InetAddress::ToBytes: 4 bytes for IPv4, 16 for IPv6
InetAddress_ToBytes(addr) == addr.bytes

\* InetAddress::FromBytes: accepts 4 or 16 bytes
InetAddress_FromBytes(bytes) ==
    IF Len(bytes) \in {4, 16}
    THEN [st |-> "OK", v6 |-> (Len(bytes) = 16), bytes |-> bytes]
    ELSE [st |-> "InvalidArgument", v6 |-> FALSE, bytes |-> <<>>]

-----------------------------------------------------------------------------
(* Results of calls. *)

RetNone ==
    [st |-> "OK", num |-> 0, str |-> <<>>,
     keys |-> <<>>, values |-> <<>>, elems |-> <<>>]

RetNum(n) == [RetNone EXCEPT !.num = n]

RetStr(s) == [RetNone EXCEPT !.str = s]

\* a failed CHECK / CHECK_OK: the process aborts, nothing is returned
RetCheck == [RetNone EXCEPT !.st = "CHECK"]

-----------------------------------------------------------------------------
(* YQLValue static helpers on a borrowed YQLValuePB. *)

type(pb) == pb.value_case

\* a slip that never reports a null
IsNull_Never(pb) == FALSE

IsNull(pb) == pb.value_case = VALUE_NOT_SET

\* YQLValuePB::Clear(): back to the cleared state, payload released
Clear(pb) == NullPB

\* clears the tag and releases any payload
SetNull(pb) == Clear(pb)

\* has_<field>() of a oneof member
has(pb, field) == pb.value_case = field

int8_value(pb) ==
    IF has(pb, "int8_value") THEN RetNum(CastSigned(pb.num, 8)) ELSE RetCheck

int16_value(pb) ==
    IF has(pb, "int16_value") THEN RetNum(CastSigned(pb.num, 16)) ELSE RetCheck

\* a slip that reads the field without the CHECK (the field's default)
int32_value_NoCheck(pb) == RetNum(pb.num)

int32_value(pb) ==
    IF has(pb, "int32_value") THEN RetNum(pb.num) ELSE RetCheck

int64_value(pb) ==
    IF has(pb, "int64_value") THEN RetNum(pb.num) ELSE RetCheck

float_value(pb) ==
    IF has(pb, "float_value") THEN RetNum(pb.num) ELSE RetCheck

double_value(pb) ==
    IF has(pb, "double_value") THEN RetNum(pb.num) ELSE RetCheck

decimal_value(pb) ==
    IF has(pb, "decimal_value") THEN RetStr(pb.str) ELSE RetCheck

bool_value(pb) ==
    IF has(pb, "bool_value")
    THEN RetNum(IF pb.num # 0 THEN 1 ELSE 0) ELSE RetCheck

string_value(pb) ==
    IF has(pb, "string_value") THEN RetStr(pb.str) ELSE RetCheck

timestamp_value(pb) ==
    IF has(pb, "timestamp_value") THEN RetNum(pb.num) ELSE RetCheck

binary_value(pb) ==
    IF has(pb, "binary_value") THEN RetStr(pb.str) ELSE RetCheck

map_value(pb) ==
    IF has(pb, "map_value")
    THEN [RetNone EXCEPT !.keys = pb.keys, !.values = pb.values]
    ELSE RetCheck

set_value(pb) ==
    IF has(pb, "set_value") THEN [RetNone EXCEPT !.elems = pb.elems]
                            ELSE RetCheck

list_value(pb) ==
    IF has(pb, "list_value") THEN [RetNone EXCEPT !.elems = pb.elems]
                             ELSE RetCheck

inetaddress_value(pb) ==
    IF has(pb, "inetaddress_value") /\ InetAddress_FromBytes(pb.str).st = "OK"
    THEN RetStr(InetAddress_FromBytes(pb.str).bytes) ELSE RetCheck

uuid_value(pb) ==
    IF has(pb, "uuid_value") /\ Uuid_FromBytes(pb.str).st = "OK"
    THEN RetStr(Uuid_FromBytes(pb.str).data) ELSE RetCheck

timeuuid_value(pb) ==
    IF /\ has(pb, "timeuuid_value")
       /\ Uuid_FromBytes(pb.str).st = "OK"
       /\ Uuid_IsTimeUuid(Uuid_FromBytes(pb.str)) = "OK"
    THEN RetStr(Uuid_FromBytes(pb.str).data) ELSE RetCheck

-----------------------------------------------------------------------------
(* Typed setters.  Setting a member of the oneof clears whichever member   *)
(* was selected before and selects the new one.                            *)

set_int8_value(val, pb) ==
    [NullPB EXCEPT !.value_case = "int8_value", !.num = val]

set_int16_value(val, pb) ==
    [NullPB EXCEPT !.value_case = "int16_value", !.num = val]

set_int32_value(val, pb) ==
    [NullPB EXCEPT !.value_case = "int32_value", !.num = val]

set_int64_value(val, pb) ==
    [NullPB EXCEPT !.value_case = "int64_value", !.num = val]

set_float_value(val, pb) ==
    [NullPB EXCEPT !.value_case = "float_value", !.num = val]

set_double_value(val, pb) ==
    [NullPB EXCEPT !.value_case = "double_value", !.num = val]

set_decimal_value(val, pb) ==
    [NullPB EXCEPT !.value_case = "decimal_value", !.str = val]

set_bool_value(val, pb) ==
    [NullPB EXCEPT !.value_case = "bool_value", !.num = val]

set_string_value(val, pb) ==
    [NullPB EXCEPT !.value_case = "string_value", !.str = val]

\* Timestamp::ToInt64 of the Timestamp overload, then the int64 overload
set_timestamp_value(val, pb) ==
    [NullPB EXCEPT !.value_case = "timestamp_value", !.num = val]

\* a slip that selects the string member, which has the same storage
set_binary_value_AsString(val, pb) == set_string_value(val, pb)

set_binary_value(val, pb) ==
    [NullPB EXCEPT !.value_case = "binary_value", !.str = val]

set_inetaddress_value(val, pb) ==
    [NullPB EXCEPT !.value_case = "inetaddress_value",
                   !.str = InetAddress_ToBytes(val)]

set_uuid_value(val, pb) ==
    [NullPB EXCEPT !.value_case = "uuid_value", !.str = Uuid_ToBytes(val)]

\* a slip that stores the UUID without looking at its version
set_timeuuid_value_NoCheck(val, pb) ==
    [st |-> "OK",
     pb |-> [NullPB EXCEPT !.value_case = "timeuuid_value",
                           !.str = Uuid_ToBytes(val)]]

\* CHECK_OK(val.IsTimeUuid()) comes first: "CHECK" stands for the abort
set_timeuuid_value(val, pb) ==
    IF Uuid_IsTimeUuid(val) = "OK"
    THEN [st |-> "OK",
          pb |-> [NullPB EXCEPT !.value_case = "timeuuid_value",
                                !.str = Uuid_ToBytes(val)]]
    ELSE [st |-> "CHECK", pb |-> pb]

-----------------------------------------------------------------------------
(* Collections.  mutable_<field>() selects the member, allocating an empty *)
(* message when another member (or none) was selected, and returns the     *)
(* message that is there otherwise.                                        *)

mutable_map_value(pb) ==
    IF has(pb, "map_value") THEN pb
    ELSE [NullPB EXCEPT !.value_case = "map_value"]

mutable_set_value(pb) ==
    IF has(pb, "set_value") THEN pb
    ELSE [NullPB EXCEPT !.value_case = "set_value"]

\* a slip that always allocates a new message
mutable_list_value_Reset(pb) == [NullPB EXCEPT !.value_case = "list_value"]

mutable_list_value(pb) ==
    IF has(pb, "list_value") THEN pb
    ELSE [NullPB EXCEPT !.value_case = "list_value"]

set_map_value(pb) == mutable_map_value(pb)

set_set_value(pb) == mutable_set_value(pb)

set_list_value(pb) == mutable_list_value(pb)

\* the element the caller is handed: which repeated field, which index
NoPtr == [field |-> "none", idx |-> 0]

ElemPtr(field, idx) == [field |-> field, idx |-> idx]

\* a slip that appends to the value sequence
add_map_key_ToValues(pb) ==
    LET m == mutable_map_value(pb)
    IN  [pb  |-> [m EXCEPT !.values = Append(m.values, NullPB)],
         ptr |-> ElemPtr("values", Len(m.values) + 1)]

\* add_keys() on the map message: one new cleared element at the end
add_map_key(pb) ==
    LET m == mutable_map_value(pb)
    IN  [pb  |-> [m EXCEPT !.keys = Append(m.keys, NullPB)],
         ptr |-> ElemPtr("keys", Len(m.keys) + 1)]

\* a slip that puts the new element in front
add_map_value_AtFront(pb) ==
    LET m == mutable_map_value(pb)
    IN  [pb  |-> [m EXCEPT !.values = <<NullPB>> \o m.values],
         ptr |-> ElemPtr("values", 1)]

add_map_value(pb) ==
    LET m == mutable_map_value(pb)
    IN  [pb  |-> [m EXCEPT !.values = Append(m.values, NullPB)],
         ptr |-> ElemPtr("values", Len(m.values) + 1)]

\* a slip that appends without selecting the set member first
add_set_elem_InPlace(pb) ==
    [pb  |-> [pb EXCEPT !.elems = Append(pb.elems, NullPB)],
     ptr |-> ElemPtr("elems", Len(pb.elems) + 1)]

add_set_elem(pb) ==
    LET m == mutable_set_value(pb)
    IN  [pb  |-> [m EXCEPT !.elems = Append(m.elems, NullPB)],
         ptr |-> ElemPtr("elems", Len(m.elems) + 1)]

\* a slip that puts the new element in front
add_list_elem_AtFront(pb) ==
    LET m == mutable_list_value(pb)
    IN  [pb  |-> [m EXCEPT !.elems = <<NullPB>> \o m.elems],
         ptr |-> ElemPtr("elems", 1)]

add_list_elem(pb) ==
    LET m == mutable_list_value(pb)
    IN  [pb  |-> [m EXCEPT !.elems = Append(m.elems, NullPB)],
         ptr |-> ElemPtr("elems", Len(m.elems) + 1)]

\* the caller writes through the pointer an add_* call returned
StoreAt(pb, p, elem) ==
    CASE p.field = "keys"   -> [pb EXCEPT !.keys[p.idx] = elem]
      [] p.field = "values" -> [pb EXCEPT !.values[p.idx] = elem]
      [] p.field = "elems"  -> [pb EXCEPT !.elems[p.idx] = elem]

LoadAt(pb, p) ==
    CASE p.field = "keys"   -> pb.keys[p.idx]
      [] p.field = "values" -> pb.values[p.idx]
      [] p.field = "elems"  -> pb.elems[p.idx]

-----------------------------------------------------------------------------
(* Assignment.  Assign is CopyFrom (Clear, then MergeFrom); AssignMove is  *)
(* Swap with the source.                                                   *)

\* MergeFrom of the oneof: a scalar member overwrites, a message member is
\* merged into the selected message, whose repeated fields are appended to
MergeFrom(self, from) ==
    CASE from.value_case = VALUE_NOT_SET -> self
      [] from.value_case = "map_value" ->
            LET m == mutable_map_value(self)
            IN  [m EXCEPT !.keys = m.keys \o from.keys,
                          !.values = m.values \o from.values]
      [] from.value_case = "set_value" ->
            LET m == mutable_set_value(self)
            IN  [m EXCEPT !.elems = m.elems \o from.elems]
      [] from.value_case = "list_value" ->
            LET m == mutable_list_value(self)
            IN  [m EXCEPT !.elems = m.elems \o from.elems]
      [] OTHER ->
            [NullPB EXCEPT !.value_case = from.value_case,
                           !.num = from.num, !.str = from.str]

\* a slip that merges without clearing the destination first
CopyFrom_NoClear(self, from) == MergeFrom(self, from)

CopyFrom(self, from) == MergeFrom(Clear(self), from)

\* a slip that copies the source and leaves it as it was
Swap_Copy(self, o) == [self |-> o, other |-> o]

\* Swap: the two records exchange their contents
Swap(self, o) == [self |-> o, other |-> self]

Assign(self, o) == CopyFrom(self, o)

AssignMove(self, o) == Swap(self, o)

-----------------------------------------------------------------------------
(* Comparison.  Comparable, BothNotNull and EitherIsNull exist in three    *)
(* forms: members of the facade, static on two records, static on a record *)
(* and a facade.  The relational operators are BothNotNull && CompareTo    *)
(* <op> 0, evaluated left to right.                                        *)

\* a slip that goes by the stored bytes instead of the tag
YQLValue_Comparable_SameBytes(self, o) ==
    self.str = o.str \/ IsNull(self) \/ IsNull(o)

YQLValue_Comparable(self, o) == type(self) = type(o) \/ IsNull(self) \/ IsNull(o)

YQLValue_BothNotNull(self, o) == ~IsNull(self) /\ ~IsNull(o)

YQLValue_EitherIsNull(self, o) == IsNull(self) \/ IsNull(o)

EitherIsNull(lhs, rhs) == IsNull(lhs) \/ IsNull(rhs)

Comparable(lhs, rhs) == lhs.value_case = rhs.value_case \/ EitherIsNull(lhs, rhs)

BothNotNull(lhs, rhs) == ~IsNull(lhs) /\ ~IsNull(rhs)

EitherIsNull_Facade(lhs, rhs) == IsNull(lhs) \/ IsNull(rhs)

Comparable_Facade(lhs, rhs) == type(lhs) = type(rhs) \/ EitherIsNull_Facade(lhs, rhs)

BothNotNull_Facade(lhs, rhs) == ~IsNull(lhs) /\ ~IsNull(rhs)

\* -1, 0 or 1 as a is below, equal to or above b
GenericCompare(a, b) == IF a < b THEN -1 ELSE IF a > b THEN 1 ELSE 0

\* lexicographic order of two byte strings, bytes unsigned
RECURSIVE BytesCompare(_, _)
BytesCompare(a, b) ==
    IF a = <<>> \/ b = <<>>
    THEN GenericCompare(Len(a), Len(b))
    ELSE IF Head(a) # Head(b)
         THEN GenericCompare(Head(a), Head(b))
         ELSE BytesCompare(Tail(a), Tail(b))

\* the number an encoded decimal stands for.  The encoding is opaque to this
\* layer; here it is the big-endian base-256 number, so that encodings of
\* different width (leading zero bytes) stand for the same number.
RECURSIVE DecimalNumber(_)
DecimalNumber(bytes) ==
    IF bytes = <<>> THEN 0
    ELSE DecimalNumber(SubSeq(bytes, 1, Len(bytes) - 1)) * 256
         + bytes[Len(bytes)]

CmpOK(r) == [st |-> "OK", r |-> r]

\* the comparison did not return: a hard assertion
CmpCheck == [st |-> "CHECK", r |-> 0]

NumericCases ==
    {"int8_value", "int16_value", "int32_value", "int64_value", "float_value",
     "double_value", "bool_value", "timestamp_value"}

\* a slip that compares the payloads without looking at the tags
CompareTo_Unchecked(lhs, rhs) ==
    IF lhs.num # rhs.num THEN CmpOK(GenericCompare(lhs.num, rhs.num))
    ELSE CmpOK(BytesCompare(lhs.str, rhs.str))

\* a slip that orders collections by their number of elements
CompareTo_CollectionsBySize(lhs, rhs) ==
    IF IsNull(lhs) \/ IsNull(rhs) \/ type(lhs) # type(rhs)
    THEN CmpCheck
    ELSE CmpOK(GenericCompare(Len(lhs.elems) + Len(lhs.keys),
                              Len(rhs.elems) + Len(rhs.keys)))

\* order of two records: defined between non-null records of the same tag;
\* scalars in their natural order, decimals by number, byte strings, UUIDs
\* and addresses bytewise; collections only as equal, otherwise unordered
CompareTo(lhs, rhs) ==
    IF IsNull(lhs) \/ IsNull(rhs) \/ type(lhs) # type(rhs)
    THEN CmpCheck
    ELSE CASE type(lhs) \in NumericCases ->
                CmpOK(GenericCompare(lhs.num, rhs.num))
           [] type(lhs) = "decimal_value" ->
                CmpOK(GenericCompare(DecimalNumber(lhs.str), DecimalNumber(rhs.str)))
           [] type(lhs) \in CollectionCases ->
                IF lhs = rhs THEN CmpOK(0) ELSE CmpCheck
           [] OTHER ->
                CmpOK(BytesCompare(lhs.str, rhs.str))

BoolOK(b) == [st |-> "OK", b |-> b]

BoolCheck == [st |-> "CHECK", b |-> FALSE]

\* both && c <op> 0: CompareTo is not called when both is false
Rel(both, c, holds) ==
    IF ~both THEN BoolOK(FALSE)
    ELSE IF c.st # "OK" THEN BoolCheck
    ELSE BoolOK(holds)

YQLValue_lt(self, o) ==
    LET c == CompareTo(self, o) IN Rel(YQLValue_BothNotNull(self, o), c, c.r < 0)

\* a slip that accepts equality
YQLValue_gt_OrEqual(self, o) ==
    LET c == CompareTo(self, o) IN Rel(YQLValue_BothNotNull(self, o), c, c.r >= 0)

YQLValue_gt(self, o) ==
    LET c == CompareTo(self, o) IN Rel(YQLValue_BothNotNull(self, o), c, c.r > 0)

YQLValue_le(self, o) ==
    LET c == CompareTo(self, o) IN Rel(YQLValue_BothNotNull(self, o), c, c.r <= 0)

YQLValue_ge(self, o) ==
    LET c == CompareTo(self, o) IN Rel(YQLValue_BothNotNull(self, o), c, c.r >= 0)

YQLValue_eq(self, o) ==
    LET c == CompareTo(self, o) IN Rel(YQLValue_BothNotNull(self, o), c, c.r = 0)

\* a slip that defines != as the negation of ==
YQLValue_ne_NotEqual(self, o) == BoolOK(~YQLValue_eq(self, o).b)

YQLValue_ne(self, o) ==
    LET c == CompareTo(self, o) IN Rel(YQLValue_BothNotNull(self, o), c, c.r # 0)

\* the free operators on two records
PB_lt(lhs, rhs) ==
    LET c == CompareTo(lhs, rhs) IN Rel(BothNotNull(lhs, rhs), c, c.r < 0)

PB_gt(lhs, rhs) ==
    LET c == CompareTo(lhs, rhs) IN Rel(BothNotNull(lhs, rhs), c, c.r > 0)

PB_le(lhs, rhs) ==
    LET c == CompareTo(lhs, rhs) IN Rel(BothNotNull(lhs, rhs), c, c.r <= 0)

PB_ge(lhs, rhs) ==
    LET c == CompareTo(lhs, rhs) IN Rel(BothNotNull(lhs, rhs), c, c.r >= 0)

PB_eq(lhs, rhs) ==
    LET c == CompareTo(lhs, rhs) IN Rel(BothNotNull(lhs, rhs), c, c.r = 0)

PB_ne(lhs, rhs) ==
    LET c == CompareTo(lhs, rhs) IN Rel(BothNotNull(lhs, rhs), c, c.r # 0)

\* the free operators on a record and a facade
PBFacade_lt(lhs, rhs) ==
    LET c == CompareTo(lhs, rhs) IN Rel(BothNotNull_Facade(lhs, rhs), c, c.r < 0)

PBFacade_gt(lhs, rhs) ==
    LET c == CompareTo(lhs, rhs) IN Rel(BothNotNull_Facade(lhs, rhs), c, c.r > 0)

PBFacade_le(lhs, rhs) ==
    LET c == CompareTo(lhs, rhs) IN Rel(BothNotNull_Facade(lhs, rhs), c, c.r <= 0)

PBFacade_ge(lhs, rhs) ==
    LET c == CompareTo(lhs, rhs) IN Rel(BothNotNull_Facade(lhs, rhs), c, c.r >= 0)

PBFacade_eq(lhs, rhs) ==
    LET c == CompareTo(lhs, rhs) IN Rel(BothNotNull_Facade(lhs, rhs), c, c.r = 0)

PBFacade_ne(lhs, rhs) ==
    LET c == CompareTo(lhs, rhs) IN Rel(BothNotNull_Facade(lhs, rhs), c, c.r # 0)

-----------------------------------------------------------------------------
(* The CQL wire codec.  Bytes are in network order.  A YQLType is          *)
(* [main, params]: the data type and, for a collection, the types of its   *)
(* elements (LIST/SET: <<elem>>, MAP: <<key, value>>).                     *)

\* a slip that stores the low byte first
RECURSIVE EncodeLE(_, _)
EncodeLE(n, w) ==
    IF w = 0 THEN <<>> ELSE <<n % 256>> \o EncodeLE(n \div 256, w - 1)

\* w bytes, big-endian two's complement
RECURSIVE EncodeBE(_, _)
EncodeBE(n, w) ==
    IF w = 0 THEN <<>> ELSE Append(EncodeBE(n \div 256, w - 1), n % 256)

\* acc followed by the big-endian bytes, as one number
RECURSIVE DecodeBE(_, _)
DecodeBE(acc, bytes) ==
    IF bytes = <<>> THEN acc
    ELSE DecodeBE(acc * 256 + Head(bytes), Tail(bytes))

\* big-endian bytes read as a two's complement number
DecodeSigned(bytes) ==
    IF bytes = <<>> THEN 0
    ELSE DecodeBE(IF bytes[1] >= 128 THEN bytes[1] - 256 ELSE bytes[1],
                  Tail(bytes))

Take(data, n) == SubSeq(data, 1, n)

Drop(data, n) == SubSeq(data, n + 1, Len(data))

\* IEEE-754 bit patterns of the floats and doubles of the model
\* (a value is given in halves: -3 is -1.5, 5 is 2.5, 9 is 4.5)
Float32Bits ==
    {<<-3, <<191, 192, 0, 0>>>>, <<0, <<0, 0, 0, 0>>>>, <<5, <<64, 32, 0, 0>>>>}

Float64Bits ==
    {<<-3, <<191, 248, 0, 0, 0, 0, 0, 0>>>>, <<0, <<0, 0, 0, 0, 0, 0, 0, 0>>>>,
     <<9, <<64, 18, 0, 0, 0, 0, 0, 0>>>>}

FloatToBits(table, val) == (CHOOSE p \in table : p[1] = val)[2]

BitsToFloat(table, bytes) == (CHOOSE p \in table : p[2] = bytes)[1]

YQLType(main, params) == [main |-> main, params |-> params]

\* byte width of the types that go on the wire without a length prefix
FixedWidth ==
    [INT8 |-> 1, INT16 |-> 2, INT32 |-> 4, INT64 |-> 8, FLOAT |-> 4,
     DOUBLE |-> 8, BOOL |-> 1, TIMESTAMP |-> 8, UUID |-> 16, TIMEUUID |-> 16]

\* the types whose encoding starts with a 4-byte length or count
LengthPrefixed == {"STRING", "BINARY", "DECIMAL", "INET", "MAP", "SET", "LIST"}

CQLEncodeLength(len) == EncodeBE(len, 4)

CQLEncodeNum(w, val) == EncodeBE(val, w)

CQLEncodeBytes(bytes) == CQLEncodeLength(Len(bytes)) \o bytes

SerOK(bytes) == [st |-> "OK", bytes |-> bytes]

\* a getter's CHECK failed while encoding
SerCheck == [st |-> "CHECK", bytes |-> <<>>]

SerNum(g, w) == IF g.st = "OK" THEN SerOK(CQLEncodeNum(w, g.num)) ELSE SerCheck

SerFloat(g, table) ==
    IF g.st = "OK" THEN SerOK(FloatToBits(table, g.num)) ELSE SerCheck

SerBytes(g) == IF g.st = "OK" THEN SerOK(CQLEncodeBytes(g.str)) ELSE SerCheck

SerRaw(g) == IF g.st = "OK" THEN SerOK(g.str) ELSE SerCheck

\* Serialize: the bytes appended to the buffer.  A null of a length-prefixed
\* type is the length -1 and nothing else; a null of a fixed-width type must
\* not be handed in (its getter's CHECK fails).  A collection is its count
\* followed by its elements, each as a length and then its own encoding, a
\* null element as the length -1; a map's pairs as key, value, key, value.
RECURSIVE Serialize(_, _)
RECURSIVE SerializeElems(_, _)
RECURSIVE SerializePairs(_, _, _, _)
SerializeElem(t, elem) ==
    IF IsNull(elem) THEN SerOK(CQLEncodeLength(-1))
    ELSE LET e == Serialize(t, elem)
         IN  IF e.st = "OK" THEN SerOK(CQLEncodeLength(Len(e.bytes)) \o e.bytes)
             ELSE SerCheck

SerializeElems(t, elems) ==
    IF elems = <<>> THEN SerOK(<<>>)
    ELSE LET h == SerializeElem(t, Head(elems))
             r == SerializeElems(t, Tail(elems))
         IN  IF h.st = "OK" /\ r.st = "OK" THEN SerOK(h.bytes \o r.bytes)
             ELSE SerCheck

SerializePairs(kt, vt, keys, values) ==
    IF keys = <<>> /\ values = <<>> THEN SerOK(<<>>)
    ELSE IF keys = <<>> \/ values = <<>> THEN SerCheck
    ELSE LET k == SerializeElem(kt, Head(keys))
             w == SerializeElem(vt, Head(values))
             r == SerializePairs(kt, vt, Tail(keys), Tail(values))
         IN  IF k.st = "OK" /\ w.st = "OK" /\ r.st = "OK"
             THEN SerOK(k.bytes \o w.bytes \o r.bytes)
             ELSE SerCheck

Serialize(t, pb) ==
    IF IsNull(pb)
    THEN IF t.main \in LengthPrefixed THEN SerOK(CQLEncodeLength(-1))
         ELSE SerCheck
    ELSE CASE t.main = "INT8" -> SerNum(int8_value(pb), 1)
           [] t.main = "INT16" -> SerNum(int16_value(pb), 2)
           [] t.main = "INT32" -> SerNum(int32_value(pb), 4)
           [] t.main = "INT64" -> SerNum(int64_value(pb), 8)
           [] t.main = "FLOAT" -> SerFloat(float_value(pb), Float32Bits)
           [] t.main = "DOUBLE" -> SerFloat(double_value(pb), Float64Bits)
           [] t.main = "BOOL" -> SerNum(bool_value(pb), 1)
           [] t.main = "TIMESTAMP" -> SerNum(timestamp_value(pb), 8)
           [] t.main = "DECIMAL" -> SerBytes(decimal_value(pb))
           [] t.main = "STRING" -> SerBytes(string_value(pb))
           [] t.main = "BINARY" -> SerBytes(binary_value(pb))
           [] t.main = "INET" -> SerBytes(inetaddress_value(pb))
           [] t.main = "UUID" -> SerRaw(uuid_value(pb))
           [] t.main = "TIMEUUID" -> SerRaw(timeuuid_value(pb))
           [] t.main = "LIST" ->
                LET g == list_value(pb)
                    e == SerializeElems(t.params[1], g.elems)
                IN  IF g.st = "OK" /\ e.st = "OK"
                    THEN SerOK(CQLEncodeLength(Len(g.elems)) \o e.bytes)
                    ELSE SerCheck
           [] t.main = "SET" ->
                LET g == set_value(pb)
                    e == SerializeElems(t.params[1], g.elems)
                IN  IF g.st = "OK" /\ e.st = "OK"
                    THEN SerOK(CQLEncodeLength(Len(g.elems)) \o e.bytes)
                    ELSE SerCheck
           [] t.main = "MAP" ->
                LET g == map_value(pb)
                    e == SerializePairs(t.params[1], t.params[2], g.keys, g.values)
                IN  IF g.st = "OK" /\ e.st = "OK"
                    THEN SerOK(CQLEncodeLength(Len(g.keys)) \o e.bytes)
                    ELSE SerCheck

\* the result of a decoding step: status, the record, the cursor
Des(st, pb, data) == [st |-> st, pb |-> pb, data |-> data]

\* mutable_string_value() and its kin hand out the record's own buffer and
\* make their member the active one: a buffer already active is kept, any
\* other payload is dropped for an empty one
\* a slip that hands out a buffer without making its member the active one
mutable_string_value_NoTag(pb) == pb

mutable_string_value(pb) ==
    IF pb.value_case = "string_value" THEN pb
    ELSE [NullPB EXCEPT !.value_case = "string_value"]

mutable_binary_value(pb) ==
    IF pb.value_case = "binary_value" THEN pb
    ELSE [NullPB EXCEPT !.value_case = "binary_value"]

mutable_decimal_value(pb) ==
    IF pb.value_case = "decimal_value" THEN pb
    ELSE [NullPB EXCEPT !.value_case = "decimal_value"]

\* CQLDecodeNum: len bytes off the cursor as a number, Corruption when fewer
\* remain; the cursor moves only on success
CQLDecodeNum(len, data) ==
    IF Len(data) < len
    THEN [st |-> "Corruption", value |-> 0, data |-> data]
    ELSE [st |-> "OK", value |-> DecodeSigned(Take(data, len)),
          data |-> Drop(data, len)]

\* CQLDecodeFloat: len bytes off the cursor as an IEEE-754 bit pattern
CQLDecodeFloat(len, table, data) ==
    IF Len(data) < len
    THEN [st |-> "Corruption", value |-> 0, data |-> data]
    ELSE [st |-> "OK", value |-> BitsToFloat(table, Take(data, len)),
          data |-> Drop(data, len)]

\* a slip that leaves out the length check
CQLDecodeBytes_NoCheck(len, data) ==
    [st |-> "OK", value |-> Take(data, IF len < Len(data) THEN len ELSE Len(data)),
     data |-> Drop(data, len)]

\* CQLDecodeBytes: len raw bytes off the cursor, Corruption when fewer remain
CQLDecodeBytes(len, data) ==
    IF Len(data) < len
    THEN [st |-> "Corruption", value |-> <<>>, data |-> data]
    ELSE [st |-> "OK", value |-> Take(data, len), data |-> Drop(data, len)]

\* (this->*setter)(value) for the numeric setters
CallSetter(setter, value, pb) ==
    CASE setter = "set_int8_value" -> set_int8_value(CastSigned(value, 8), pb)
      [] setter = "set_int16_value" -> set_int16_value(CastSigned(value, 16), pb)
      [] setter = "set_int32_value" -> set_int32_value(value, pb)
      [] setter = "set_int64_value" -> set_int64_value(value, pb)
      [] setter = "set_timestamp_value" -> set_timestamp_value(value, pb)
      [] setter = "set_bool_value" ->
            set_bool_value(IF value # 0 THEN 1 ELSE 0, pb)
      [] setter = "set_float_value" -> set_float_value(value, pb)
      [] setter = "set_double_value" -> set_double_value(value, pb)

\* a slip that returns OK without calling the setter
CQLDeserializeNum_NoSet(len, setter, data, pb) ==
    LET d == CQLDecodeNum(len, data)
    IN  IF d.st # "OK" THEN Des(d.st, pb, d.data) ELSE Des("OK", pb, d.data)

\* a slip that drops the RETURN_NOT_OK: the setter is handed the value as it
\* was initialised when the decode failed
CQLDeserializeNum_SetAnyway(len, setter, data, pb) ==
    LET d == CQLDecodeNum(len, data)
    IN  Des(d.st, CallSetter(setter, d.value, pb), d.data)

CQLDeserializeNum(len, setter, data, pb) ==
    LET d == CQLDecodeNum(len, data)
    IN  IF d.st # "OK" THEN Des(d.st, pb, d.data)
        ELSE Des("OK", CallSetter(setter, d.value, pb), d.data)

CQLDeserializeFloat(len, table, setter, data, pb) ==
    LET d == CQLDecodeFloat(len, table, data)
    IN  IF d.st # "OK" THEN Des(d.st, pb, d.data)
        ELSE Des("OK", CallSetter(setter, d.value, pb), d.data)

\* Deserialize: the record is populated from the cursor, which moves past
\* what was consumed.  A negative length or count sets the record null and
\* reads nothing more.
RECURSIVE Deserialize(_, _, _)
RECURSIVE DeserializeElems(_, _, _, _)
RECURSIVE DeserializePairs(_, _, _, _, _)
\* one element: its length, then that many bytes decoded as type t
DeserializeElem(t, data) ==
    LET l == CQLDecodeNum(4, data)
    IN  IF l.st # "OK" THEN Des(l.st, NullPB, data)
        ELSE IF l.value < 0 THEN Des("OK", NullPB, l.data)
        ELSE IF Len(l.data) < l.value THEN Des("Corruption", NullPB, data)
        ELSE LET e == Deserialize(t, Take(l.data, l.value), NullPB)
             IN  Des(e.st, e.pb, Drop(l.data, l.value))

\* n elements appended to the list or set pb, one add_*_elem() each
DeserializeElems(n, t, data, pb) ==
    IF n = 0 THEN Des("OK", pb, data)
    ELSE LET e == DeserializeElem(t, data)
         IN  IF e.st # "OK" THEN Des(e.st, pb, data)
             ELSE LET a == IF pb.value_case = "set_value" THEN add_set_elem(pb)
                                                         ELSE add_list_elem(pb)
                  IN  DeserializeElems(n - 1, t, e.data, StoreAt(a.pb, a.ptr, e.pb))

\* n pairs appended to the map pb, one add_map_key() and add_map_value() each
DeserializePairs(n, kt, vt, data, pb) ==
    IF n = 0 THEN Des("OK", pb, data)
    ELSE LET k == DeserializeElem(kt, data)
         IN  IF k.st # "OK" THEN Des(k.st, pb, data)
             ELSE LET w == DeserializeElem(vt, k.data)
                  IN  IF w.st # "OK" THEN Des(w.st, pb, data)
                      ELSE LET ak == add_map_key(pb)
                               pk == StoreAt(ak.pb, ak.ptr, k.pb)
                               av == add_map_value(pk)
                               pv == StoreAt(av.pb, av.ptr, w.pb)
                           IN  DeserializePairs(n - 1, kt, vt, w.data, pv)

\* a length and that many bytes off the cursor; a negative length is a null
\* and nothing more is read
DecodeLengthPrefixed(data) ==
    LET l == CQLDecodeNum(4, data)
    IN  IF l.st # "OK"
        THEN [st |-> l.st, null |-> FALSE, value |-> <<>>, data |-> l.data]
        ELSE IF l.value < 0
        THEN [st |-> "OK", null |-> TRUE, value |-> <<>>, data |-> l.data]
        ELSE LET b == CQLDecodeBytes(l.value, l.data)
             IN  [st |-> b.st, null |-> FALSE, value |-> b.value, data |-> b.data]

\* the outcome for a length-prefixed scalar: the error, a null, or the
\* record stored holding the decoded bytes
StoreDecoded(d, pb, stored) ==
    IF d.st # "OK" THEN Des(d.st, pb, d.data)
    ELSE IF d.null THEN Des("OK", SetNull(pb), d.data)
    ELSE Des("OK", stored, d.data)

Deserialize(t, data, pb) ==
    CASE t.main = "INT8" -> CQLDeserializeNum(1, "set_int8_value", data, pb)
      [] t.main = "INT16" -> CQLDeserializeNum(2, "set_int16_value", data, pb)
      [] t.main = "INT32" -> CQLDeserializeNum(4, "set_int32_value", data, pb)
      [] t.main = "INT64" -> CQLDeserializeNum(8, "set_int64_value", data, pb)
      [] t.main = "BOOL" -> CQLDeserializeNum(1, "set_bool_value", data, pb)
      [] t.main = "TIMESTAMP" ->
            CQLDeserializeNum(8, "set_timestamp_value", data, pb)
      [] t.main = "FLOAT" ->
            CQLDeserializeFloat(4, Float32Bits, "set_float_value", data, pb)
      [] t.main = "DOUBLE" ->
            CQLDeserializeFloat(8, Float64Bits, "set_double_value", data, pb)
      [] t.main = "STRING" ->
            LET d == DecodeLengthPrefixed(data)
            IN  StoreDecoded(d, pb, set_string_value(d.value, pb))
      [] t.main = "BINARY" ->
            LET d == DecodeLengthPrefixed(data)
            IN  StoreDecoded(d, pb, set_binary_value(d.value, pb))
      [] t.main = "DECIMAL" ->
            LET d == DecodeLengthPrefixed(data)
            IN  StoreDecoded(d, pb, set_decimal_value(d.value, pb))
      [] t.main = "INET" ->
            LET d == DecodeLengthPrefixed(data)
                a == InetAddress_FromBytes(d.value)
            IN  IF d.st = "OK" /\ ~d.null /\ a.st # "OK"
                THEN Des(a.st, pb, d.data)
                ELSE StoreDecoded(d, pb, set_inetaddress_value(a, pb))
      [] t.main = "UUID" ->
            LET b == CQLDecodeBytes(16, data)
            IN  IF b.st # "OK" THEN Des(b.st, pb, data)
                ELSE Des("OK", set_uuid_value(Uuid_FromBytes(b.value), pb), b.data)
      [] t.main = "TIMEUUID" ->
            LET b == CQLDecodeBytes(16, data)
            IN  IF b.st # "OK" THEN Des(b.st, pb, data)
                ELSE IF Uuid_IsTimeUuid(Uuid_FromBytes(b.value)) # "OK"
                THEN Des("Corruption", pb, data)
                ELSE Des("OK", set_timeuuid_value(Uuid_FromBytes(b.value), pb).pb,
                         b.data)
      [] t.main = "LIST" ->
            LET n == CQLDecodeNum(4, data)
            IN  IF n.st # "OK" THEN Des(n.st, pb, data)
                ELSE IF n.value < 0 THEN Des("OK", SetNull(pb), n.data)
                ELSE DeserializeElems(n.value, t.params[1], n.data,
                                      set_list_value(SetNull(pb)))
      [] t.main = "SET" ->
            LET n == CQLDecodeNum(4, data)
            IN  IF n.st # "OK" THEN Des(n.st, pb, data)
                ELSE IF n.value < 0 THEN Des("OK", SetNull(pb), n.data)
                ELSE DeserializeElems(n.value, t.params[1], n.data,
                                      set_set_value(SetNull(pb)))
      [] t.main = "MAP" ->
            LET n == CQLDecodeNum(4, data)
            IN  IF n.st # "OK" THEN Des(n.st, pb, data)
                ELSE IF n.value < 0 THEN Des("OK", SetNull(pb), n.data)
                ELSE DeserializePairs(n.value, t.params[1], t.params[2], n.data,
                                      set_map_value(SetNull(pb)))

\* A failed decode leaves the record's state unspecified: it may be what it
\* was, what the decoder had built when it gave up, or, for the types that
\* decode into the record's own buffer, that buffer made active.
UnspecifiedTargets(t, pb, r) ==
    {pb, r.pb}
    \cup (IF t.main = "STRING" THEN {mutable_string_value(pb)} ELSE {})
    \cup (IF t.main = "BINARY" THEN {mutable_binary_value(pb)} ELSE {})
    \cup (IF t.main = "DECIMAL" THEN {mutable_decimal_value(pb)} ELSE {})

-----------------------------------------------------------------------------
(* Inputs the callers are drawn from. *)

Int8Vals == {-128, 5}

Int16Vals == {-3, 300}

Int32Vals == {-1, 42}

Int64Vals == {0, 70000}

\* floats and doubles stand as numbers in halves (3 is 1.5)
FloatVals == {-3, 5}

DoubleVals == {0, 9}

BoolVals == {0, 1}

TimestampVals == {0, 1500}

\* "", "ab"
StringVals == {<<>>, <<97, 98>>}

BinaryVals == {<<0>>, <<255, 1>>}

\* opaque encoded decimals
DecimalVals == {<<193>>, <<193, 2>>}

InetAddressVals ==
    {[v6 |-> FALSE, bytes |-> <<127, 0, 0, 1>>],
     [v6 |-> TRUE, bytes |-> <<0, 0, 0, 0, 0, 0, 0, 0, 0, 0, 0, 0, 0, 0, 0, 1>>]}

\* a version-1 (time-based) and a version-4 (random) UUID
TimeUuid == [data |-> <<1, 2, 3, 4, 5, 6, 17, 8, 129, 10, 11, 12, 13, 14, 15, 16>>]

RandomUuid == [data |-> <<9, 2, 3, 4, 5, 6, 71, 8, 129, 10, 11, 12, 13, 14, 15, 16>>]

UuidVals == {TimeUuid, RandomUuid}

\* what a caller stores into an element it was handed: a key or a set/list
\* element becomes an int32, a map value a string
ElemInt32Vals == {1, 2}

ElemStringVals == {<<97>>}

\* records handed to Assign / AssignMove
SourcePBs ==
    {NullPB,
     set_int32_value(42, NullPB),
     set_string_value(<<97, 98>>, NullPB),
     [NullPB EXCEPT !.value_case = "list_value",
                    !.elems = <<set_int32_value(1, NullPB), NullPB>>],
     [NullPB EXCEPT !.value_case = "set_value",
                    !.elems = <<set_int32_value(2, NullPB)>>],
     [NullPB EXCEPT !.value_case = "map_value",
                    !.keys = <<set_int32_value(1, NullPB)>>,
                    !.values = <<set_string_value(<<97>>, NullPB)>>]}

ArgNum(n) == [NullPB EXCEPT !.num = n]

ArgStr(s) == [NullPB EXCEPT !.str = s]

-----------------------------------------------------------------------------
(* The facade YQLValueWithPB: one action per member function.  A call      *)
(* records its name, its argument and its result; after a failed CHECK the *)
(* process is gone and nothing more happens.                               *)

Alive == ret.st # "CHECK"

Call(name, newv, a, r, o, p) ==
    /\ Alive
    /\ v' = newv
    /\ pre' = v
    /\ op' = name
    /\ arg' = a
    /\ ret' = r
    /\ other' = o
    /\ ptr' = p
    /\ UNCHANGED cmpVars
    /\ UNCHANGED codecVars
    /\ UNCHANGED <<buildVars, vtVars>>

Setter(name, newv, a) == Call(name, newv, a, RetNone, NullPB, NoPtr)

Getter(name, r) == Call(name, v, NullPB, r, NullPB, NoPtr)

YQLValueWithPB_SetNull == Setter("SetNull", SetNull(v), NullPB)

YQLValueWithPB_set_int8_value ==
    \E val \in Int8Vals :
        Setter("set_int8_value", set_int8_value(val, v), ArgNum(val))

YQLValueWithPB_set_int16_value ==
    \E val \in Int16Vals :
        Setter("set_int16_value", set_int16_value(val, v), ArgNum(val))

YQLValueWithPB_set_int32_value ==
    \E val \in Int32Vals :
        Setter("set_int32_value", set_int32_value(val, v), ArgNum(val))

YQLValueWithPB_set_int64_value ==
    \E val \in Int64Vals :
        Setter("set_int64_value", set_int64_value(val, v), ArgNum(val))

YQLValueWithPB_set_float_value ==
    \E val \in FloatVals :
        Setter("set_float_value", set_float_value(val, v), ArgNum(val))

YQLValueWithPB_set_double_value ==
    \E val \in DoubleVals :
        Setter("set_double_value", set_double_value(val, v), ArgNum(val))

YQLValueWithPB_set_decimal_value ==
    \E val \in DecimalVals :
        Setter("set_decimal_value", set_decimal_value(val, v), ArgStr(val))

YQLValueWithPB_set_bool_value ==
    \E val \in BoolVals :
        Setter("set_bool_value", set_bool_value(val, v), ArgNum(val))

YQLValueWithPB_set_string_value ==
    \E val \in StringVals :
        Setter("set_string_value", set_string_value(val, v), ArgStr(val))

YQLValueWithPB_set_timestamp_value ==
    \E val \in TimestampVals :
        Setter("set_timestamp_value", set_timestamp_value(val, v), ArgNum(val))

YQLValueWithPB_set_binary_value ==
    \E val \in BinaryVals :
        Setter("set_binary_value", set_binary_value(val, v), ArgStr(val))

YQLValueWithPB_set_inetaddress_value ==
    \E val \in InetAddressVals :
        Setter("set_inetaddress_value", set_inetaddress_value(val, v),
               ArgStr(val.bytes))

YQLValueWithPB_set_uuid_value ==
    \E val \in UuidVals :
        Setter("set_uuid_value", set_uuid_value(val, v), ArgStr(val.data))

YQLValueWithPB_set_timeuuid_value ==
    \E val \in UuidVals :
        LET r == set_timeuuid_value(val, v)
        IN  Call("set_timeuuid_value", r.pb, ArgStr(val.data),
                 [RetNone EXCEPT !.st = r.st], NullPB, NoPtr)

YQLValueWithPB_set_map_value ==
    Setter("set_map_value", set_map_value(v), NullPB)

YQLValueWithPB_set_set_value ==
    Setter("set_set_value", set_set_value(v), NullPB)

YQLValueWithPB_set_list_value ==
    Setter("set_list_value", set_list_value(v), NullPB)

\* an add_* call: the record grows, the caller holds the new element
Adder(name, r) == Call(name, r.pb, NullPB, RetNone, NullPB, r.ptr)

YQLValueWithPB_add_map_key ==
    /\ Len(mutable_map_value(v).keys) < MaxElems
    /\ Adder("add_map_key", add_map_key(v))

YQLValueWithPB_add_map_value ==
    /\ Len(mutable_map_value(v).values) < MaxElems
    /\ Adder("add_map_value", add_map_value(v))

YQLValueWithPB_add_set_elem ==
    /\ Len(mutable_set_value(v).elems) < MaxElems
    /\ Adder("add_set_elem", add_set_elem(v))

YQLValueWithPB_add_list_elem ==
    /\ Len(mutable_list_value(v).elems) < MaxElems
    /\ Adder("add_list_elem", add_list_elem(v))

\* the caller populates the element it was handed, through the static setters
PopulateElem ==
    /\ ptr.field \in {"keys", "elems"}
    /\ \E val \in ElemInt32Vals :
          Call("populate", StoreAt(v, ptr, set_int32_value(val, LoadAt(v, ptr))),
               ArgNum(val), RetNone, NullPB, NoPtr)

PopulateMapValue ==
    /\ ptr.field = "values"
    /\ \E val \in ElemStringVals :
          Call("populate", StoreAt(v, ptr, set_string_value(val, LoadAt(v, ptr))),
               ArgStr(val), RetNone, NullPB, NoPtr)

\* operator=(const YQLValuePB&)
YQLValueWithPB_Assign ==
    \E o \in SourcePBs :
        Call("Assign", Assign(v, o), o, RetNone, o, NoPtr)

\* operator=(YQLValuePB&&)
YQLValueWithPB_AssignMove ==
    \E o \in SourcePBs :
        LET r == AssignMove(v, o)
        IN  Call("AssignMove", r.self, o, RetNone, r.other, NoPtr)

YQLValueWithPB_int8_value == Getter("int8_value", int8_value(v))

YQLValueWithPB_int16_value == Getter("int16_value", int16_value(v))

YQLValueWithPB_int32_value == Getter("int32_value", int32_value(v))

YQLValueWithPB_int64_value == Getter("int64_value", int64_value(v))

YQLValueWithPB_float_value == Getter("float_value", float_value(v))

YQLValueWithPB_double_value == Getter("double_value", double_value(v))

YQLValueWithPB_decimal_value == Getter("decimal_value", decimal_value(v))

YQLValueWithPB_bool_value == Getter("bool_value", bool_value(v))

YQLValueWithPB_string_value == Getter("string_value", string_value(v))

YQLValueWithPB_timestamp_value == Getter("timestamp_value", timestamp_value(v))

YQLValueWithPB_binary_value == Getter("binary_value", binary_value(v))

YQLValueWithPB_inetaddress_value ==
    Getter("inetaddress_value", inetaddress_value(v))

YQLValueWithPB_map_value == Getter("map_value", map_value(v))

YQLValueWithPB_set_value == Getter("set_value", set_value(v))

YQLValueWithPB_list_value == Getter("list_value", list_value(v))

YQLValueWithPB_uuid_value == Getter("uuid_value", uuid_value(v))

YQLValueWithPB_timeuuid_value == Getter("timeuuid_value", timeuuid_value(v))

\* the buffer of the record's own string, binary or decimal payload
BufferPtr == ElemPtr("buffer", 0)

\* a mutable_* call: the member becomes the active one, the caller holds
\* the buffer
YQLValueWithPB_mutable_decimal_value ==
    Call("mutable_decimal_value", mutable_decimal_value(v), NullPB, RetNone,
         NullPB, BufferPtr)

YQLValueWithPB_mutable_string_value ==
    Call("mutable_string_value", mutable_string_value(v), NullPB, RetNone,
         NullPB, BufferPtr)

YQLValueWithPB_mutable_binary_value ==
    Call("mutable_binary_value", mutable_binary_value(v), NullPB, RetNone,
         NullPB, BufferPtr)

\* bytes a caller stores through the buffer it was handed
BufferWrites == {<<104>>, <<104, 105>>}

\* the caller assigns to the std::string it was handed; the pointer stays
\* good until the next call on the record
WriteBuffer ==
    /\ ptr = BufferPtr
    /\ \E bytes \in BufferWrites :
          Call("write_buffer", [v EXCEPT !.str = bytes], ArgStr(bytes), RetNone,
               NullPB, BufferPtr)

\* a freshly constructed facade, no call made yet
FacadeInit ==
    /\ v = NullPB
    /\ pre = NullPB
    /\ op = "init"
    /\ arg = NullPB
    /\ ret = RetNone
    /\ other = NullPB
    /\ ptr = NoPtr

-----------------------------------------------------------------------------
(* The comparison functions, applied to records drawn from every type.     *)

\* three numbers for each numeric member
CmpNums == {-3, 0, 7}

CmpPB(case, n, s) == [NullPB EXCEPT !.value_case = case, !.num = n, !.str = s]

CmpSeq(case, e) == [NullPB EXCEPT !.value_case = case, !.elems = e]

CmpValues ==
    {NullPB}
    \cup {CmpPB(c, n, <<>>) :
            c \in NumericCases \ {"bool_value"}, n \in CmpNums}
    \cup {CmpPB("bool_value", n, <<>>) : n \in BoolVals}
    \cup {CmpPB("string_value", 0, s) :
            s \in {<<>>, <<97>>, <<97, 98>>, <<98>>}}
    \cup {CmpPB("binary_value", 0, s) : s \in {<<0>>, <<0, 255>>, <<97>>, <<200>>}}
    \cup {CmpPB("decimal_value", 0, s) : s \in {<<5>>, <<0, 5>>, <<1, 0>>}}
    \cup {CmpPB("inetaddress_value", 0, s) :
            s \in {<<10, 0, 0, 1>>, <<127, 0, 0, 1>>, <<127, 0, 1, 0>>}}
    \cup {CmpPB("uuid_value", 0, s) :
            s \in {TimeUuid.data, RandomUuid.data,
                   <<1, 2, 3, 4, 5, 6, 17, 8, 129, 10, 11, 12, 13, 14, 15, 17>>}}
    \cup {CmpPB("timeuuid_value", 0, s) :
            s \in {TimeUuid.data,
                   <<0, 2, 3, 4, 5, 6, 17, 8, 129, 10, 11, 12, 13, 14, 15, 16>>,
                   <<1, 2, 3, 4, 5, 6, 17, 8, 129, 10, 11, 12, 13, 14, 15, 17>>}}
    \cup {CmpSeq("list_value", e) :
            e \in {<<>>, <<set_int32_value(1, NullPB)>>,
                   <<set_int32_value(2, NullPB)>>}}
    \cup {CmpSeq("set_value", e) : e \in {<<>>, <<set_int32_value(1, NullPB)>>}}
    \cup {[NullPB EXCEPT !.value_case = "map_value"],
          [NullPB EXCEPT !.value_case = "map_value",
                         !.keys = <<set_int32_value(1, NullPB)>>,
                         !.values = <<set_string_value(<<97>>, NullPB)>>]}

NoBool == [st |-> "none", b |-> FALSE]

NoCmp == [st |-> "none", r |-> 0]

NoRes ==
    [lt |-> NoBool, gt |-> NoBool, le |-> NoBool, ge |-> NoBool,
     eq |-> NoBool, ne |-> NoBool,
     member |-> NoBool, pb |-> NoBool, facade |-> NoBool,
     xy |-> NoCmp, yx |-> NoCmp, yz |-> NoCmp, xz |-> NoCmp]

\* no collection is being built
BuildIdle ==
    /\ bval = NullPB
    /\ bpre = NullPB
    /\ bop = "idle"
    /\ bptr = NoPtr
    /\ script = <<>>

\* no row is being filled
VtIdle ==
    /\ row = <<>>
    /\ rpre = <<>>
    /\ vcol = ""
    /\ vvalue = NullPB
    /\ vst = "idle"

\* no comparison under way
CmpIdle ==
    /\ x = NullPB
    /\ y = NullPB
    /\ z = NullPB
    /\ cop = "idle"
    /\ cres = NoRes

\* no value is being exchanged
CodecIdle ==
    /\ ctype = YQLType("INT32", <<>>)
    /\ cval = NullPB
    /\ buffer = <<>>
    /\ produced = <<>>
    /\ sent = <<>>
    /\ cursor = <<>>
    /\ target = NullPB
    /\ tpre = NullPB
    /\ cst = "OK"
    /\ cphase = "idle"

\* x and y are any two records, z is null or of y's type
CmpInit ==
    /\ FacadeInit
    /\ CodecIdle
    /\ BuildIdle
    /\ VtIdle
    /\ x \in CmpValues
    /\ y \in CmpValues
    /\ z \in {w \in CmpValues : IsNull(w) \/ type(w) = type(y)}
    /\ cop = "init"
    /\ cres = NoRes

Evaluate(name, r) ==
    /\ cop = "init"
    /\ cop' = name
    /\ cres' = r
    /\ UNCHANGED <<x, y, z>>
    /\ UNCHANGED facadeVars
    /\ UNCHANGED codecVars
    /\ UNCHANGED <<buildVars, vtVars>>

\* x <op> y with the six member operators of the facade
MemberOperators ==
    Evaluate("member",
             [NoRes EXCEPT !.lt = YQLValue_lt(x, y), !.gt = YQLValue_gt(x, y),
                           !.le = YQLValue_le(x, y), !.ge = YQLValue_ge(x, y),
                           !.eq = YQLValue_eq(x, y), !.ne = YQLValue_ne(x, y)])

\* x <op> y with the six free operators on two records
FreeOperators ==
    Evaluate("free",
             [NoRes EXCEPT !.lt = PB_lt(x, y), !.gt = PB_gt(x, y),
                           !.le = PB_le(x, y), !.ge = PB_ge(x, y),
                           !.eq = PB_eq(x, y), !.ne = PB_ne(x, y)])

\* x <op> y with the six free operators on a record and a facade
FreeFacadeOperators ==
    Evaluate("free_facade",
             [NoRes EXCEPT !.lt = PBFacade_lt(x, y), !.gt = PBFacade_gt(x, y),
                           !.le = PBFacade_le(x, y), !.ge = PBFacade_ge(x, y),
                           !.eq = PBFacade_eq(x, y), !.ne = PBFacade_ne(x, y)])

\* CompareTo on the pairs of x, y, z
CompareToPairs ==
    Evaluate("CompareTo",
             [NoRes EXCEPT !.xy = CompareTo(x, y), !.yx = CompareTo(y, x),
                           !.yz = CompareTo(y, z), !.xz = CompareTo(x, z)])

\* Comparable on x and y in its three forms
ComparableForms ==
    Evaluate("Comparable",
             [NoRes EXCEPT !.member = BoolOK(YQLValue_Comparable(x, y)),
                           !.pb = BoolOK(Comparable(x, y)),
                           !.facade = BoolOK(Comparable_Facade(x, y))])

CmpNext ==
    \/ ComparableForms
    \/ MemberOperators
    \/ FreeOperators
    \/ FreeFacadeOperators
    \/ CompareToPairs

CmpSpec == CmpInit /\ [][CmpNext]_vars

-----------------------------------------------------------------------------
(* The codec at work: a record is serialized into a buffer, the bytes are  *)
(* handed to a decoder (whole, followed by other bytes, or cut short),     *)
(* and deserialized into a record that held something before.              *)

INT32_T == YQLType("INT32", <<>>)

STRING_T == YQLType("STRING", <<>>)

ListPB(elems) == [NullPB EXCEPT !.value_case = "list_value", !.elems = elems]

SetPB(elems) == [NullPB EXCEPT !.value_case = "set_value", !.elems = elems]

MapPB(keys, values) ==
    [NullPB EXCEPT !.value_case = "map_value", !.keys = keys, !.values = values]

\* each type with its values, null included
CodecInputs ==
    UNION {
      {<<YQLType("INT8", <<>>), p>> :
          p \in {NullPB} \cup {set_int8_value(n, NullPB) : n \in Int8Vals}},
      {<<YQLType("INT16", <<>>), p>> :
          p \in {NullPB} \cup {set_int16_value(n, NullPB) : n \in Int16Vals}},
      {<<INT32_T, p>> :
          p \in {NullPB} \cup {set_int32_value(n, NullPB) : n \in Int32Vals}},
      {<<YQLType("INT64", <<>>), p>> :
          p \in {NullPB} \cup {set_int64_value(n, NullPB) : n \in Int64Vals \cup {-5}}},
      {<<YQLType("FLOAT", <<>>), p>> :
          p \in {NullPB} \cup {set_float_value(n, NullPB) : n \in FloatVals}},
      {<<YQLType("DOUBLE", <<>>), p>> :
          p \in {NullPB} \cup {set_double_value(n, NullPB) : n \in DoubleVals}},
      {<<YQLType("BOOL", <<>>), p>> :
          p \in {NullPB} \cup {set_bool_value(n, NullPB) : n \in BoolVals}},
      {<<YQLType("TIMESTAMP", <<>>), p>> :
          p \in {NullPB} \cup {set_timestamp_value(n, NullPB) : n \in TimestampVals}},
      {<<YQLType("DECIMAL", <<>>), p>> :
          p \in {NullPB} \cup {set_decimal_value(n, NullPB) : n \in DecimalVals}},
      {<<STRING_T, p>> :
          p \in {NullPB} \cup {set_string_value(n, NullPB) : n \in StringVals}},
      {<<YQLType("BINARY", <<>>), p>> :
          p \in {NullPB} \cup {set_binary_value(n, NullPB) : n \in BinaryVals}},
      {<<YQLType("INET", <<>>), p>> :
          p \in {NullPB} \cup {set_inetaddress_value(n, NullPB) : n \in InetAddressVals}},
      {<<YQLType("UUID", <<>>), p>> :
          p \in {NullPB} \cup {set_uuid_value(n, NullPB) : n \in UuidVals}},
      {<<YQLType("TIMEUUID", <<>>), p>> :
          p \in {NullPB, set_timeuuid_value(TimeUuid, NullPB).pb}},
      {<<YQLType("LIST", <<INT32_T>>), p>> :
          p \in {NullPB, ListPB(<<>>),
                 ListPB(<<set_int32_value(1, NullPB), set_int32_value(2, NullPB)>>),
                 ListPB(<<NullPB, set_int32_value(-1, NullPB)>>)}},
      {<<YQLType("SET", <<STRING_T>>), p>> :
          p \in {NullPB, SetPB(<<>>),
                 SetPB(<<set_string_value(<<97, 98>>, NullPB),
                         set_string_value(<<>>, NullPB)>>)}},
      {<<YQLType("MAP", <<INT32_T, STRING_T>>), p>> :
          p \in {NullPB, MapPB(<<>>, <<>>),
                 MapPB(<<set_int32_value(1, NullPB)>>,
                       <<set_string_value(<<97>>, NullPB)>>),
                 MapPB(<<set_int32_value(1, NullPB), set_int32_value(2, NullPB)>>,
                       <<set_string_value(<<97>>, NullPB), NullPB>>)}},
      {<<YQLType("LIST", <<YQLType("LIST", <<INT32_T>>)>>), p>> :
          p \in {ListPB(<<ListPB(<<set_int32_value(1, NullPB)>>), ListPB(<<>>)>>)}}
    }

\* what the record that is deserialized into held before
TargetPBs ==
    {NullPB, set_int32_value(42, NullPB), set_string_value(<<122>>, NullPB),
     ListPB(<<set_int32_value(7, NullPB)>>)}

\* what is already in the buffer, and what follows a value on the wire
BufferPrefixes == {<<>>, <<9>>}

Trailers == {<<>>, <<7, 7>>}

CodecInit ==
    /\ FacadeInit
    /\ CmpIdle
    /\ BuildIdle
    /\ VtIdle
    /\ \E in \in CodecInputs : ctype = in[1] /\ cval = in[2]
    /\ buffer \in BufferPrefixes
    /\ produced = <<>>
    /\ sent = <<>>
    /\ cursor = <<>>
    /\ target \in TargetPBs
    /\ tpre = NullPB
    /\ cst = "OK"
    /\ cphase = "init"

\* cval.Serialize(ctype, client, &buffer)
DoSerialize ==
    /\ cphase = "init"
    /\ LET r == Serialize(ctype, cval)
       IN  /\ buffer' = buffer \o r.bytes
           /\ produced' = r.bytes
           /\ cst' = r.st
    /\ cphase' = "serialized"
    /\ UNCHANGED <<ctype, cval, sent, cursor, target, tpre>>
    /\ UNCHANGED <<facadeVars, cmpVars, buildVars, vtVars>>

\* the decoder is handed the value's bytes, and whatever follows them
Receive ==
    /\ cphase = "serialized"
    /\ cst = "OK"
    /\ \E t \in Trailers :
          /\ sent' = produced \o t
          /\ cursor' = produced \o t
    /\ cphase' = "received"
    /\ UNCHANGED <<ctype, cval, buffer, produced, target, tpre, cst>>
    /\ UNCHANGED <<facadeVars, cmpVars, buildVars, vtVars>>

\* the decoder is handed input that ends before the value does
ReceiveTruncated ==
    /\ cphase = "serialized"
    /\ cst = "OK"
    /\ \E n \in 0 .. Len(produced) - 1 :
          /\ sent' = Take(produced, n)
          /\ cursor' = Take(produced, n)
    /\ cphase' = "truncated"
    /\ UNCHANGED <<ctype, cval, buffer, produced, target, tpre, cst>>
    /\ UNCHANGED <<facadeVars, cmpVars, buildVars, vtVars>>

\* target.Deserialize(ctype, client, &cursor)
DoDeserialize ==
    /\ cphase \in {"received", "truncated"}
    /\ LET r == Deserialize(ctype, cursor, target)
       IN  /\ target' \in IF r.st = "OK" THEN {r.pb}
                          ELSE UnspecifiedTargets(ctype, target, r)
           /\ cursor' = r.data
           /\ cst' = r.st
    /\ tpre' = target
    /\ cphase' = IF cphase = "received" THEN "deserialized" ELSE "failed"
    /\ UNCHANGED <<ctype, cval, buffer, produced, sent>>
    /\ UNCHANGED <<facadeVars, cmpVars, buildVars, vtVars>>

CodecNext ==
    \/ DoSerialize
    \/ Receive
    \/ ReceiveTruncated
    \/ DoDeserialize

CodecSpec == CodecInit /\ [][CodecNext]_vars

-----------------------------------------------------------------------------
(* A caller building a collection with the static helpers: set_*_value()   *)
(* on a null record, then appends, each new element populated through the  *)
(* pointer the append returned before the next append; a map is built      *)
(* key, value, key, value.                                                 *)

\* what the builder stores in list and set elements and in map keys
BuildInt32Vals == ElemInt32Vals \cup {3}

BuildCall(name, r) ==
    /\ bval' = r.pb
    /\ bpre' = bval
    /\ bop' = name
    /\ bptr' = r.ptr
    /\ UNCHANGED script
    /\ UNCHANGED <<facadeVars, cmpVars, codecVars, vtVars>>

Build_set_map_value ==
    /\ bop = "new"
    /\ BuildCall("set_map_value", [pb |-> set_map_value(bval), ptr |-> NoPtr])

Build_set_set_value ==
    /\ bop = "new"
    /\ BuildCall("set_set_value", [pb |-> set_set_value(bval), ptr |-> NoPtr])

Build_set_list_value ==
    /\ bop = "new"
    /\ BuildCall("set_list_value", [pb |-> set_list_value(bval), ptr |-> NoPtr])

Build_add_map_key ==
    /\ type(bval) = "map_value"
    /\ bptr = NoPtr
    /\ Len(bval.keys) = Len(bval.values)
    /\ Len(bval.keys) < MaxElems
    /\ BuildCall("add_map_key", add_map_key(bval))

Build_add_map_value ==
    /\ type(bval) = "map_value"
    /\ bptr = NoPtr
    /\ Len(bval.keys) = Len(bval.values) + 1
    /\ BuildCall("add_map_value", add_map_value(bval))

Build_add_set_elem ==
    /\ type(bval) = "set_value"
    /\ bptr = NoPtr
    /\ Len(bval.elems) < MaxElems
    /\ BuildCall("add_set_elem", add_set_elem(bval))

Build_add_list_elem ==
    /\ type(bval) = "list_value"
    /\ bptr = NoPtr
    /\ Len(bval.elems) < MaxElems
    /\ BuildCall("add_list_elem", add_list_elem(bval))

\* the builder sets the element it was handed, with a static setter
Build_populate ==
    /\ bptr # NoPtr
    /\ \E elem \in IF bptr.field = "values"
                   THEN {set_string_value(val, LoadAt(bval, bptr)) : val \in StringVals}
                   ELSE {set_int32_value(val, LoadAt(bval, bptr)) : val \in BuildInt32Vals} :
          /\ bval' = StoreAt(bval, bptr, elem)
          /\ script' = Append(script, elem)
    /\ bpre' = bval
    /\ bop' = "populate"
    /\ bptr' = NoPtr
    /\ UNCHANGED <<facadeVars, cmpVars, codecVars, vtVars>>

BuildInit ==
    /\ FacadeInit
    /\ CmpIdle
    /\ CodecIdle
    /\ VtIdle
    /\ bval = NullPB
    /\ bpre = NullPB
    /\ bop = "new"
    /\ bptr = NoPtr
    /\ script = <<>>

BuildNext ==
    \/ Build_set_map_value
    \/ Build_set_set_value
    \/ Build_set_list_value
    \/ Build_add_map_key
    \/ Build_add_map_value
    \/ Build_add_set_elem
    \/ Build_add_list_elem
    \/ Build_populate

BuildSpec == BuildInit /\ [][BuildNext]_vars

-----------------------------------------------------------------------------
(* YQLVirtualTable::SetColumnValue (yb/master/yql_virtual_table.h): a      *)
(* column is looked up by name in the table's schema and the row's cell    *)
(* at its index is overwritten.  A QLRow is the sequence of its cells, a   *)
(* Schema the sequence of its columns; column indexes count from 0.        *)

\* Schema::kColumnNotFound
kColumnNotFound == -1

\* schema_: the columns of the virtual table, names unique
schema_ ==
    <<[name |-> "keyspace_name", type |-> "STRING"],
      [name |-> "table_name", type |-> "STRING"],
      [name |-> "port", type |-> "INT32"]>>

\* Schema::find_column: the index of the column of that name
find_column(col_name) ==
    IF \E i \in 1 .. Len(schema_) : schema_[i].name = col_name
    THEN (CHOOSE i \in 1 .. Len(schema_) : schema_[i].name = col_name) - 1
    ELSE kColumnNotFound

\* util::GetValue: the value as a record of the column's data type
GetValue(value, data_type) ==
    CASE data_type = "STRING" -> set_string_value(value.str, NullPB)
      [] data_type = "INT32" -> set_int32_value(value.num, NullPB)

\* a slip that reports success when the column is missing
SetColumnValue_NoLookupCheck(col_name, value, r) ==
    LET column_index == find_column(col_name)
    IN  IF column_index = kColumnNotFound THEN [st |-> "OK", row |-> r]
        ELSE [st  |-> "OK",
              row |-> [r EXCEPT ![column_index + 1] =
                          GetValue(value, schema_[column_index + 1].type)]]

SetColumnValue(col_name, value, r) ==
    LET column_index == find_column(col_name)
    IN  IF column_index = kColumnNotFound THEN [st |-> "NotFound", row |-> r]
        ELSE [st  |-> "OK",
              row |-> [r EXCEPT ![column_index + 1] =
                          GetValue(value, schema_[column_index + 1].type)]]

\* column names callers ask for: those of the schema and two it lacks
ColumnNames == {schema_[i].name : i \in 1 .. Len(schema_)} \cup {"missing", ""}

\* values callers pass
VtValues ==
    {ArgNum(n) : n \in {7, 9042}} \cup {ArgStr(t) : t \in {<<97>>, <<115, 121>>}}

\* the value is of the C++ type the column's data type takes
ValueFits(value, data_type) ==
    IF data_type = "STRING" THEN value \in {ArgStr(t) : t \in {<<97>>, <<115, 121>>}}
    ELSE value \in {ArgNum(n) : n \in {7, 9042}}

\* a row of the table: every cell null or a value of its column's type
VtRows ==
    {r \in [1 .. Len(schema_) ->
               {NullPB, set_string_value(<<120>>, NullPB), set_int32_value(1, NullPB)}] :
        \A i \in 1 .. Len(schema_) :
            r[i] \in {NullPB, GetValue([num |-> 1, str |-> <<120>>], schema_[i].type)}}

VtInit ==
    /\ FacadeInit
    /\ CmpIdle
    /\ CodecIdle
    /\ BuildIdle
    /\ row \in VtRows
    /\ rpre = row
    /\ vcol \in ColumnNames
    /\ vvalue \in VtValues
    /\ find_column(vcol) # kColumnNotFound =>
          ValueFits(vvalue, schema_[find_column(vcol) + 1].type)
    /\ vst = "init"

YQLVirtualTable_SetColumnValue ==
    /\ vst = "init"
    /\ LET r == SetColumnValue(vcol, vvalue, row)
       IN  /\ row' = r.row
           /\ vst' = r.st
    /\ rpre' = row
    /\ UNCHANGED <<vcol, vvalue>>
    /\ UNCHANGED <<facadeVars, cmpVars, codecVars, buildVars>>

VtNext == YQLVirtualTable_SetColumnValue

VtSpec == VtInit /\ [][VtNext]_vars

Init ==
    /\ FacadeInit
    /\ CmpIdle
    /\ CodecIdle
    /\ BuildIdle
    /\ VtIdle

Next ==
    \/ YQLValueWithPB_SetNull
    \/ YQLValueWithPB_set_int8_value
    \/ YQLValueWithPB_set_int16_value
    \/ YQLValueWithPB_set_int32_value
    \/ YQLValueWithPB_set_int64_value
    \/ YQLValueWithPB_set_float_value
    \/ YQLValueWithPB_set_double_value
    \/ YQLValueWithPB_set_decimal_value
    \/ YQLValueWithPB_set_bool_value
    \/ YQLValueWithPB_set_string_value
    \/ YQLValueWithPB_set_timestamp_value
    \/ YQLValueWithPB_set_binary_value
    \/ YQLValueWithPB_set_inetaddress_value
    \/ YQLValueWithPB_set_uuid_value
    \/ YQLValueWithPB_set_timeuuid_value
    \/ YQLValueWithPB_set_map_value
    \/ YQLValueWithPB_set_set_value
    \/ YQLValueWithPB_set_list_value
    \/ YQLValueWithPB_add_map_key
    \/ YQLValueWithPB_add_map_value
    \/ YQLValueWithPB_add_set_elem
    \/ YQLValueWithPB_add_list_elem
    \/ PopulateElem
    \/ PopulateMapValue
    \/ YQLValueWithPB_Assign
    \/ YQLValueWithPB_AssignMove
    \/ YQLValueWithPB_int8_value
    \/ YQLValueWithPB_int16_value
    \/ YQLValueWithPB_int32_value
    \/ YQLValueWithPB_int64_value
    \/ YQLValueWithPB_float_value
    \/ YQLValueWithPB_double_value
    \/ YQLValueWithPB_decimal_value
    \/ YQLValueWithPB_bool_value
    \/ YQLValueWithPB_string_value
    \/ YQLValueWithPB_timestamp_value
    \/ YQLValueWithPB_binary_value
    \/ YQLValueWithPB_inetaddress_value
    \/ YQLValueWithPB_map_value
    \/ YQLValueWithPB_set_value
    \/ YQLValueWithPB_list_value
    \/ YQLValueWithPB_uuid_value
    \/ YQLValueWithPB_timeuuid_value
    \/ YQLValueWithPB_mutable_decimal_value
    \/ YQLValueWithPB_mutable_string_value
    \/ YQLValueWithPB_mutable_binary_value
    \/ WriteBuffer

Spec == Init /\ [][Next]_vars

-----------------------------------------------------------------------------
(* Properties of the facade. *)

\* the oneof member each typed setter selects
SetterCase ==
    [set_int8_value |-> "int8_value", set_int16_value |-> "int16_value",
     set_int32_value |-> "int32_value", set_int64_value |-> "int64_value",
     set_float_value |-> "float_value", set_double_value |-> "double_value",
     set_decimal_value |-> "decimal_value", set_bool_value |-> "bool_value",
     set_string_value |-> "string_value",
     set_timestamp_value |-> "timestamp_value",
     set_binary_value |-> "binary_value",
     set_inetaddress_value |-> "inetaddress_value",
     set_uuid_value |-> "uuid_value", set_timeuuid_value |-> "timeuuid_value"]

\* the getter that matches the record's tag
ValueOf(pb) ==
    CASE pb.value_case = "int8_value" -> int8_value(pb)
      [] pb.value_case = "int16_value" -> int16_value(pb)
      [] pb.value_case = "int32_value" -> int32_value(pb)
      [] pb.value_case = "int64_value" -> int64_value(pb)
      [] pb.value_case = "float_value" -> float_value(pb)
      [] pb.value_case = "double_value" -> double_value(pb)
      [] pb.value_case = "decimal_value" -> decimal_value(pb)
      [] pb.value_case = "bool_value" -> bool_value(pb)
      [] pb.value_case = "string_value" -> string_value(pb)
      [] pb.value_case = "timestamp_value" -> timestamp_value(pb)
      [] pb.value_case = "binary_value" -> binary_value(pb)
      [] pb.value_case = "inetaddress_value" -> inetaddress_value(pb)
      [] pb.value_case = "uuid_value" -> uuid_value(pb)
      [] pb.value_case = "timeuuid_value" -> timeuuid_value(pb)
      [] pb.value_case = "map_value" -> map_value(pb)
      [] pb.value_case = "set_value" -> set_value(pb)
      [] pb.value_case = "list_value" -> list_value(pb)
      [] OTHER -> RetCheck

\* the payload fields that are not the selected member hold nothing
OnePayload(pb) ==
    /\ pb.value_case \in CollectionCases \cup {VALUE_NOT_SET}
          => pb.num = 0 /\ pb.str = <<>>
    /\ pb.value_case # "map_value" => pb.keys = <<>> /\ pb.values = <<>>
    /\ pb.value_case \notin {"set_value", "list_value"} => pb.elems = <<>>
    /\ pb.value_case \in ScalarCases => pb.num = 0 \/ pb.str = <<>>

\* C6: after a typed setter the record's type() is that setter's tag, the
\* matching getter returns the value that was passed and nothing of the
\* earlier tag or payload is left; the record is null when it is fresh or
\* SetNull() was the last call, and not null after a setter.
C6_LastSetterDecides ==
    /\ (op \in DOMAIN SetterCase /\ ret.st = "OK") =>
          /\ type(v) = SetterCase[op]
          /\ ~IsNull(v)
          /\ ValueOf(v) = [RetNone EXCEPT !.num = arg.num, !.str = arg.str]
          /\ OnePayload(v)
    /\ op \in {"init", "SetNull"} => IsNull(v) /\ OnePayload(v)

\* a setter has replaced a record of another type that held a payload
C6_Witness ==
    /\ op = "set_binary_value"
    /\ pre.value_case = "int32_value"
    /\ pre.num = 42
    /\ v.str = <<255, 1>>

\* the oneof member each getter reads
GetterCase ==
    [int8_value |-> "int8_value", int16_value |-> "int16_value",
     int32_value |-> "int32_value", int64_value |-> "int64_value",
     float_value |-> "float_value", double_value |-> "double_value",
     decimal_value |-> "decimal_value", bool_value |-> "bool_value",
     string_value |-> "string_value", timestamp_value |-> "timestamp_value",
     binary_value |-> "binary_value",
     inetaddress_value |-> "inetaddress_value", map_value |-> "map_value",
     set_value |-> "set_value", list_value |-> "list_value",
     uuid_value |-> "uuid_value", timeuuid_value |-> "timeuuid_value"]

\* C7: a getter returns a value only when the record's active tag is the
\* getter's; on a null record and on any other tag the CHECK fails, and no
\* getter ever returns a recoverable error.
C7_GetterChecksTag ==
    op \in DOMAIN GetterCase =>
        /\ ret.st \in {"OK", "CHECK"}
        /\ ret.st = "OK" => type(v) = GetterCase[op]
        /\ type(v) # GetterCase[op] => ret = RetCheck
        /\ IsNull(v) => ret.st = "CHECK"
        /\ v = pre

\* a getter was called on a record of another type, and on a null record
C7_Witness ==
    /\ op = "int32_value"
    /\ v.value_case = "string_value"
    /\ ret.st = "CHECK"

\* C8 as claimed: after a move-assignment the destination holds what the
\* source held and the source is null.
C8_MoveLeavesSourceNull ==
    op = "AssignMove" => v = arg /\ IsNull(other)

\* C8, amended: a move-assignment exchanges the two records: the destination
\* holds what the source held, and the source holds what the destination held
\* before, so it is null exactly when the destination was.
C8_MoveSwaps ==
    op = "AssignMove" =>
        /\ v = arg
        /\ other = pre
        /\ IsNull(other) <=> IsNull(pre)

\* a collection was moved into a destination that held a scalar
C8_Witness ==
    /\ op = "AssignMove"
    /\ pre.value_case = "string_value"
    /\ arg.value_case = "map_value"
    /\ v.value_case = "map_value"
    /\ other.value_case = "string_value"

\* C9: after a copy-assignment the destination equals the source, whatever
\* it held before, the source is as it was, and a null source leaves the
\* destination null.
C9_AssignCopies ==
    op = "Assign" =>
        /\ v = arg
        /\ other = arg
        /\ IsNull(arg) => IsNull(v)

\* a list was assigned over a non-empty list
C9_Witness ==
    /\ op = "Assign"
    /\ pre.value_case = "list_value"
    /\ Len(pre.elems) = 2
    /\ arg.value_case = "list_value"
    /\ v.elems = arg.elems
    /\ pre.elems # arg.elems

\* C10 as claimed: a map record always has as many keys as values.
C10_KeysMatchValues ==
    v.value_case = "map_value" => Len(v.keys) = Len(v.values)

\* the key and value sequences the map calls start from
PreKeys == IF pre.value_case = "map_value" THEN pre.keys ELSE <<>>

PreValues == IF pre.value_case = "map_value" THEN pre.values ELSE <<>>

\* C10, amended: add_map_key() lengthens the key sequence by one and leaves
\* the value sequence as it was, add_map_value() lengthens the value
\* sequence by one and leaves the keys, set_map_value() changes neither; so
\* the two lengths are equal only after equally many calls of each, and
\* between the two calls of a pair there is one key more than values.
C10_MapCallsGrowOneSide ==
    /\ op = "add_map_key" =>
          /\ v.value_case = "map_value"
          /\ Len(v.keys) = Len(PreKeys) + 1
          /\ v.values = PreValues
          /\ Len(PreKeys) = Len(PreValues) => Len(v.keys) = Len(v.values) + 1
    /\ op = "add_map_value" =>
          /\ v.value_case = "map_value"
          /\ Len(v.values) = Len(PreValues) + 1
          /\ v.keys = PreKeys
    /\ op = "set_map_value" =>
          /\ v.value_case = "map_value"
          /\ v.keys = PreKeys
          /\ v.values = PreValues

\* a second key was appended to a balanced map: two keys, one value
C10_Witness ==
    /\ op = "add_map_key"
    /\ pre.value_case = "map_value"
    /\ Len(pre.keys) = 1
    /\ Len(pre.values) = 1
    /\ Len(v.keys) = 2
    /\ Len(v.values) = 1

-----------------------------------------------------------------------------
(* Properties of the comparison functions. *)

RelResults == {cres.lt, cres.gt, cres.le, cres.ge, cres.eq, cres.ne}

OperatorsEvaluated == cop \in {"member", "free", "free_facade"}

\* C1: when x or y is null (or both), each of x<y, x>y, x<=y, x>=y, x==y
\* and x!=y evaluates to false, for the member operators and for the free
\* operators alike.
C1_NullComparesFalse ==
    (OperatorsEvaluated /\ (IsNull(x) \/ IsNull(y))) =>
        RelResults = {BoolOK(FALSE)}

\* the member operators were evaluated on two nulls
C1_Witness ==
    /\ cop = "member"
    /\ IsNull(x)
    /\ IsNull(y)
    /\ cres.ne = BoolOK(FALSE)
    /\ cres.eq = BoolOK(FALSE)

\* how many of x<y, x==y, x>y evaluated to true
Holding == Cardinality({f \in {"lt", "eq", "gt"} : cres[f] = BoolOK(TRUE)})

Sign(c) == GenericCompare(c.r, 0)

\* CompareTo returned on every pair, and is antisymmetric and transitive
OrderLaws ==
    /\ {cres.xy.st, cres.yx.st} = {"OK"}
    /\ Sign(cres.xy) = -Sign(cres.yx)
    /\ (~IsNull(z) /\ type(z) = type(x)) =>
          /\ {cres.yz.st, cres.xz.st} = {"OK"}
          /\ (Sign(cres.xy) <= 0 /\ Sign(cres.yz) <= 0) => Sign(cres.xz) <= 0
          /\ (Sign(cres.xy) < 0 /\ Sign(cres.yz) <= 0) => Sign(cres.xz) < 0
          /\ (Sign(cres.xy) <= 0 /\ Sign(cres.yz) < 0) => Sign(cres.xz) < 0
          /\ (Sign(cres.xy) = 0 /\ Sign(cres.yz) = 0) => Sign(cres.xz) = 0

\* C5 as claimed: for x, y of the same non-null tag, whichever it is, exactly
\* one of x<y, x==y, x>y holds and CompareTo is antisymmetric and transitive.
C5_TotalOnEveryTag ==
    (~IsNull(x) /\ ~IsNull(y) /\ type(x) = type(y)) =>
        /\ OperatorsEvaluated => Holding = 1
        /\ cop = "CompareTo" => OrderLaws

\* C5, amended: for x, y of the same non-null scalar tag exactly one of x<y,
\* x==y, x>y holds and CompareTo is antisymmetric and transitive.
C5_TotalOnScalars ==
    (type(x) \in ScalarCases /\ type(x) = type(y)) =>
        /\ OperatorsEvaluated => Holding = 1 /\ BoolCheck \notin RelResults
        /\ cop = "CompareTo" => OrderLaws

\* CompareTo ordered three different strings
C5_Witness ==
    /\ cop = "CompareTo"
    /\ type(x) = "string_value"
    /\ type(y) = "string_value"
    /\ type(z) = "string_value"
    /\ Sign(cres.xy) < 0
    /\ Sign(cres.yz) < 0
    /\ Sign(cres.xz) < 0

-----------------------------------------------------------------------------
(* The wire codec. *)

\* bytes Deserialize took off the cursor
Consumed == Len(sent) - Len(cursor)

\* the 4-byte length the input starts with
DeclaredLength == DecodeSigned(Take(sent, 4))

\* C2 as stated: every value of every type, null included, serializes and
\* comes back from its bytes equal to itself, with as many bytes consumed as
\* were appended.
C2_RoundTripEveryValue ==
    /\ cphase = "serialized" => cst = "OK"
    /\ cphase = "deserialized" =>
          /\ cst = "OK"
          /\ target = cval
          /\ Consumed = Len(produced)

\* C2: every value that may be serialized (any non-null value, and null for
\* the types that carry a length or count) comes back from its bytes equal to
\* itself whatever the target held and whatever follows on the wire, and
\* Deserialize consumes as many bytes as Serialize appended.
C2_RoundTrip ==
    /\ (cphase = "serialized"
        /\ (cval.value_case # VALUE_NOT_SET \/ ctype.main \in LengthPrefixed)) =>
          /\ cst = "OK"
          /\ buffer = SubSeq(buffer, 1, Len(buffer) - Len(produced)) \o produced
    /\ cphase = "deserialized" =>
          /\ cst = "OK"
          /\ target = cval
          /\ Consumed = Len(produced)
          /\ sent = produced \o cursor

C2_Witness ==
    /\ cphase = "deserialized"
    /\ ctype.main = "MAP"
    /\ Len(cval.keys) = 2
    /\ cval.values[2] = NullPB
    /\ tpre.value_case = "list_value"
    /\ target = cval
    /\ cursor = <<7, 7>>
    /\ Consumed = Len(produced)

\* C3: a null of a length-prefixed type is serialized as the four bytes of a
\* negative length and nothing else; a negative length at the head of the
\* input makes the target null, with the cursor exactly four bytes on and
\* whatever follows left unread.
C3_NullAsymmetry ==
    /\ (cphase # "init" /\ cval.value_case = VALUE_NOT_SET
        /\ ctype.main \in LengthPrefixed) =>
          /\ Len(produced) = 4
          /\ DecodeSigned(produced) < 0
          /\ produced = <<255, 255, 255, 255>>
    /\ (cphase \in {"deserialized", "failed"} /\ ctype.main \in LengthPrefixed
        /\ Len(sent) >= 4 /\ DeclaredLength < 0) =>
          /\ cst = "OK"
          /\ IsNull(target)
          /\ cursor = Drop(sent, 4)

C3_Witness ==
    /\ cphase = "deserialized"
    /\ ctype.main = "STRING"
    /\ produced = <<255, 255, 255, 255>>
    /\ sent = <<255, 255, 255, 255, 7, 7>>
    /\ ~IsNull(tpre)
    /\ IsNull(target)
    /\ cursor = <<7, 7>>

\* a text value arrived whose declared length is more than what is left
TextLengthExceedsInput ==
    /\ cphase = "failed"
    /\ ctype.main = "STRING"
    /\ Len(sent) >= 4
    /\ DeclaredLength > Len(sent) - 4

-----------------------------------------------------------------------------
(* Building collections. *)

\* the builder holds no element it has not populated
AllPopulated == bptr = NoPtr

\* C11: after set_map_value() on a null record and n add_map_key() /
\* add_map_value() pairs, each element populated, there are n keys and n
\* values and the i-th key and the i-th value are those of the i-th pair.
C11_MapPairsAligned ==
    (type(bval) = "map_value" /\ AllPopulated /\ Len(script) % 2 = 0) =>
        /\ Len(bval.keys) = Len(script) \div 2
        /\ Len(bval.values) = Len(script) \div 2
        /\ \A i \in 1 .. Len(script) \div 2 :
              /\ bval.keys[i] = script[2 * i - 1]
              /\ bval.values[i] = script[2 * i]

\* two pairs were appended, the larger key first
C11_Witness ==
    /\ type(bval) = "map_value"
    /\ bop = "populate"
    /\ bval.keys = <<set_int32_value(2, NullPB), set_int32_value(1, NullPB)>>
    /\ bval.values = <<set_string_value(<<97, 98>>, NullPB),
                    set_string_value(<<>>, NullPB)>>

\* C12: add_list_elem() and add_set_elem() append one null record at the end
\* and hand out that element, leaving the earlier ones as they were; a list
\* or set built from a null record holds what was stored, in the order of
\* the appends, duplicates kept and nothing sorted.
C12_AppendsInOrder ==
    /\ bop \in {"add_list_elem", "add_set_elem"} =>
          /\ type(bval) = (IF bop = "add_list_elem" THEN "list_value" ELSE "set_value")
          /\ bval.elems = Append(bpre.elems, NullPB)
          /\ bptr = ElemPtr("elems", Len(bval.elems))
    /\ (type(bval) \in {"list_value", "set_value"} /\ AllPopulated) =>
          bval.elems = script

\* a set was built that holds the same element twice
C12_Witness ==
    /\ bop = "populate"
    /\ type(bval) = "set_value"
    /\ bval.elems = <<set_int32_value(2, NullPB), set_int32_value(2, NullPB)>>
    /\ script = bval.elems

\* the collection kind each set_*_value() call selects
CollectionSetterCase ==
    [set_map_value |-> "map_value", set_set_value |-> "set_value",
     set_list_value |-> "list_value"]

\* C13 as stated: after set_map_value(), set_set_value() or set_list_value()
\* the record has that collection's tag and its sequences are empty,
\* whatever it held before.
C13_AlwaysEmpty ==
    op \in DOMAIN CollectionSetterCase =>
        /\ type(v) = CollectionSetterCase[op]
        /\ v.keys = <<>> /\ v.values = <<>> /\ v.elems = <<>>

\* C13: after set_map_value(), set_set_value() or set_list_value() the
\* record has that collection's tag.  Its sequences are empty when it was
\* null or held a scalar or another collection kind; a record that already
\* held a collection of that kind is left as it was, elements included.
C13_EmptyUnlessSameKind ==
    op \in DOMAIN CollectionSetterCase =>
        /\ type(v) = CollectionSetterCase[op]
        /\ type(pre) # type(v) =>
              v.keys = <<>> /\ v.values = <<>> /\ v.elems = <<>>
        /\ type(pre) = type(v) => v = pre
        /\ v.num = 0 /\ v.str = <<>>

\* set_list_value() was called on a list of two elements
C13_Witness ==
    /\ op = "set_list_value"
    /\ type(pre) = "list_value"
    /\ Len(pre.elems) = 2
    /\ v = pre

\* the UUID handed to the last set_timeuuid_value()
ArgUuid == [data |-> arg.str]

\* C14 as stated: a UUID that is not time-based makes set_timeuuid_value()
\* fail with InvalidArgument and store nothing.
C14_InvalidArgumentReturned ==
    (op = "set_timeuuid_value" /\ Uuid_IsTimeUuid(ArgUuid) # "OK") =>
        /\ ret.st = "InvalidArgument"
        /\ v = pre

\* C14: a UUID that is not time-based trips the setter's assertion
\* (CHECK_OK on the InvalidArgument of IsTimeUuid); nothing is returned to
\* the caller and nothing is stored, so a record that set_timeuuid_value()
\* gave the time-UUID tag holds a time-based UUID.
C14_NonTimeUuidAborts ==
    op = "set_timeuuid_value" =>
        /\ Uuid_IsTimeUuid(ArgUuid) # "OK" => ret.st = "CHECK" /\ v = pre
        /\ Uuid_IsTimeUuid(ArgUuid) = "OK" =>
              /\ ret.st = "OK"
              /\ type(v) = "timeuuid_value"
              /\ v.str = arg.str
        /\ ret.st = "OK" => Uuid_IsTimeUuid(Uuid_FromBytes(v.str)) = "OK"

\* a random (version 4) UUID was handed to set_timeuuid_value()
C14_Witness ==
    /\ op = "set_timeuuid_value"
    /\ arg.str = RandomUuid.data
    /\ ret.st = "CHECK"
    /\ type(pre) = "int32_value"
    /\ v = pre

-----------------------------------------------------------------------------
(* Comparability and the order of collections. *)

\* C15: x and y are Comparable exactly when their tags are equal or one of
\* them is null, the bytes they hold playing no part, and the member form,
\* the form on two records and the form on a record and a facade give the
\* same answer.
C15_ComparableByTag ==
    cop = "Comparable" =>
        LET byTag == \/ x.value_case = y.value_case
                     \/ x.value_case = VALUE_NOT_SET
                     \/ y.value_case = VALUE_NOT_SET
        IN  /\ cres.member = BoolOK(byTag)
            /\ cres.pb = BoolOK(byTag)
            /\ cres.facade = BoolOK(byTag)

\* a string and a binary value of the same bytes were found not Comparable
C15_Witness ==
    /\ cop = "Comparable"
    /\ x.value_case = "string_value"
    /\ y.value_case = "binary_value"
    /\ x.str = <<97>>
    /\ y.str = x.str
    /\ cres.member = BoolOK(FALSE)
    /\ cres.facade = BoolOK(FALSE)

\* x and y are both non-null and their tags differ
Incomparable ==
    /\ x.value_case # VALUE_NOT_SET
    /\ y.value_case # VALUE_NOT_SET
    /\ x.value_case # y.value_case

\* C16: CompareTo on two non-null records of different tags trips its
\* assertion, in either order: it returns no ordering result and no error
\* status.
C16_IncomparableAsserts ==
    (cop = "CompareTo" /\ Incomparable) =>
        /\ cres.xy = CmpCheck
        /\ cres.yx = CmpCheck
        /\ cres.xy.st \notin {"OK", "InvalidArgument", "Corruption", "NotFound"}

\* CompareTo was called on a string and a binary value of the same bytes
C16_Witness ==
    /\ cop = "CompareTo"
    /\ x.value_case = "string_value"
    /\ y.value_case = "binary_value"
    /\ x.str = y.str
    /\ cres.xy.st = "CHECK"

\* x and y are collections of the same kind
SameKindCollections ==
    /\ x.value_case \in CollectionCases
    /\ x.value_case = y.value_case

\* C17: between two collections of the same kind only equality is decided:
\* equal ones compare equal, and for unequal ones neither x<y nor x>y holds
\* and CompareTo gives no order.
C17_CollectionsOnlyEqual ==
    SameKindCollections =>
        /\ (OperatorsEvaluated /\ x = y) =>
              /\ cres.eq = BoolOK(TRUE)
              /\ cres.lt = BoolOK(FALSE)
              /\ cres.gt = BoolOK(FALSE)
        /\ (OperatorsEvaluated /\ x # y) =>
              /\ cres.lt # BoolOK(TRUE)
              /\ cres.gt # BoolOK(TRUE)
              /\ cres.eq # BoolOK(TRUE)
        /\ cop = "CompareTo" =>
              /\ x = y => cres.xy = CmpOK(0)
              /\ x # y => cres.xy.st # "OK" /\ cres.yx.st # "OK"

\* the operators were evaluated on two different lists
C17_Witness ==
    /\ cop = "member"
    /\ x.value_case = "list_value"
    /\ y.value_case = "list_value"
    /\ Len(x.elems) = 1
    /\ Len(y.elems) = 1
    /\ x # y
    /\ cres.lt # BoolOK(TRUE)
    /\ cres.gt # BoolOK(TRUE)

-----------------------------------------------------------------------------
(* The virtual table's column setter. *)

\* the schema has a column of the name that was asked for
ColumnExists == \E i \in 1 .. Len(schema_) : schema_[i].name = vcol

\* C18: SetColumnValue returns NotFound and leaves the row as it was when
\* the schema has no column of that name; otherwise it returns OK and the
\* cell at the column's index holds the value, every other cell being as it
\* was.
C18_SetColumnValue ==
    vst \notin {"idle", "init"} =>
        /\ ~ColumnExists => vst = "NotFound" /\ row = rpre
        /\ ColumnExists =>
              /\ vst = "OK"
              /\ Len(row) = Len(rpre)
              /\ \A i \in 1 .. Len(schema_) :
                    IF schema_[i].name = vcol
                    THEN row[i] = GetValue(vvalue, schema_[i].type)
                    ELSE row[i] = rpre[i]

\* a column the schema lacks was asked for, on a row that holds values
C18_Witness ==
    /\ vst = "NotFound"
    /\ vcol = "missing"
    /\ row = rpre
    /\ \A i \in 1 .. Len(schema_) : row[i] # NullPB

-----------------------------------------------------------------------------
(* The mutable-buffer accessors. *)

\* the oneof member each accessor selects
MutableCase ==
    [mutable_decimal_value |-> "decimal_value",
     mutable_string_value |-> "string_value",
     mutable_binary_value |-> "binary_value"]

\* what the getter matching the record's active member returns
MatchingGetter ==
    CASE v.value_case = "decimal_value" -> decimal_value(v)
      [] v.value_case = "string_value" -> string_value(v)
      [] v.value_case = "binary_value" -> binary_value(v)
      [] OTHER -> RetCheck

\* C19: mutable_string_value(), mutable_binary_value() and
\* mutable_decimal_value() make their member the active one: after the call
\* the record is not null, its type is the accessor's, a record that was null
\* or of another type has an empty payload, and bytes written through the
\* returned buffer are what the matching getter returns.
C19_MutableSetsTag ==
    /\ op \in DOMAIN MutableCase =>
          /\ ~IsNull(v)
          /\ type(v) = MutableCase[op]
          /\ ptr = BufferPtr
          /\ type(pre) # MutableCase[op] => MatchingGetter = RetStr(<<>>)
          /\ type(pre) = MutableCase[op] => v = pre
    /\ op = "write_buffer" =>
          /\ ~IsNull(v)
          /\ type(v) \in {"decimal_value", "string_value", "binary_value"}
          /\ type(v) = type(pre)
          /\ MatchingGetter = RetStr(arg.str)

\* the decimal buffer was asked of a record that held an int32
C19_Witness ==
    /\ op = "mutable_decimal_value"
    /\ type(pre) = "int32_value"
    /\ ~IsNull(v)
    /\ type(v) = "decimal_value"
    /\ ptr = BufferPtr

-----------------------------------------------------------------------------
(* The wire layout of scalars. *)

\* the integer types and the bytes each takes on the wire
IntegerWidth == [INT8 |-> 1, INT16 |-> 2, INT32 |-> 4, INT64 |-> 8]

\* a value was encoded, and the encoder did not abort
Encoded == cphase = "serialized" /\ cst = "OK"

\* C20: an integer of width w serializes to exactly w bytes that read
\* big-endian as its two's complement, with no length in front (int32 42 is
\* 00 00 00 2A); a non-null text or binary value of n bytes serializes to
\* the 4-byte big-endian length n and then those n bytes ("ab" is
\* 00 00 00 02 61 62); a null string serializes to FF FF FF FF.
C20_ScalarWireLayout ==
    /\ (Encoded /\ ctype.main \in DOMAIN IntegerWidth) =>
          /\ Len(produced) = IntegerWidth[ctype.main]
          /\ \A i \in 1 .. Len(produced) : produced[i] \in 0 .. 255
          /\ DecodeSigned(produced) = cval.num
    /\ (Encoded /\ ctype.main \in {"STRING", "BINARY"} /\ ~IsNull(cval)) =>
          /\ Len(produced) = 4 + Len(cval.str)
          /\ \A i \in 1 .. 4 : produced[i] \in 0 .. 255
          /\ DecodeBE(0, SubSeq(produced, 1, 4)) = Len(cval.str)
          /\ SubSeq(produced, 5, Len(produced)) = cval.str
    /\ (Encoded /\ ctype = INT32_T /\ cval = set_int32_value(42, NullPB)) =>
          produced = <<0, 0, 0, 42>>
    /\ (Encoded /\ ctype = STRING_T /\ cval = set_string_value(<<97, 98>>, NullPB)) =>
          produced = <<0, 0, 0, 2, 97, 98>>
    /\ (Encoded /\ ctype = STRING_T /\ IsNull(cval)) =>
          produced = <<255, 255, 255, 255>>
    /\ (cphase = "serialized" /\ ctype.main \in {"STRING", "BINARY"}) => cst = "OK"
    /\ (cphase = "serialized" /\ ctype.main \in DOMAIN IntegerWidth /\ ~IsNull(cval)) =>
          cst = "OK"

\* the int32 42 was encoded behind a byte already in the buffer
C20_Witness ==
    /\ Encoded
    /\ ctype = INT32_T
    /\ cval = set_int32_value(42, NullPB)
    /\ produced = <<0, 0, 0, 42>>
    /\ buffer = <<9, 0, 0, 0, 42>>

-----------------------------------------------------------------------------
(* The numeric decode helpers. *)

\* the types decoded by CQLDeserializeNum, with the length and the setter
\* each is decoded with
NumHelperArgs ==
    [INT8 |-> [len |-> 1, setter |-> "set_int8_value"],
     INT16 |-> [len |-> 2, setter |-> "set_int16_value"],
     INT32 |-> [len |-> 4, setter |-> "set_int32_value"],
     INT64 |-> [len |-> 8, setter |-> "set_int64_value"],
     BOOL |-> [len |-> 1, setter |-> "set_bool_value"],
     TIMESTAMP |-> [len |-> 8, setter |-> "set_timestamp_value"]]

\* the same for CQLDeserializeFloat
FloatHelperArgs ==
    [FLOAT |-> [len |-> 4, setter |-> "set_float_value", table |-> Float32Bits],
     DOUBLE |-> [len |-> 8, setter |-> "set_double_value", table |-> Float64Bits]]

\* a record of one of those types was decoded
HelperRan ==
    /\ cphase \in {"deserialized", "failed"}
    /\ ctype.main \in DOMAIN NumHelperArgs \cup DOMAIN FloatHelperArgs

\* the length the helper was called with
HelperLen ==
    IF ctype.main \in DOMAIN NumHelperArgs THEN NumHelperArgs[ctype.main].len
    ELSE FloatHelperArgs[ctype.main].len

\* the record the setter leaves when handed the number in the input
HelperSets ==
    IF ctype.main \in DOMAIN NumHelperArgs
    THEN CallSetter(NumHelperArgs[ctype.main].setter,
                    DecodeSigned(Take(sent, HelperLen)), tpre)
    ELSE CallSetter(FloatHelperArgs[ctype.main].setter,
                    BitsToFloat(FloatHelperArgs[ctype.main].table,
                                Take(sent, HelperLen)), tpre)

\* C26: CQLDeserializeNum and CQLDeserializeFloat return Corruption without
\* calling the setter when fewer bytes remain than the declared length, the
\* record and the cursor being what they were; otherwise the setter is
\* called with the decoded value, the cursor moves past the bytes read and
\* OK is returned.
C26_NoSetterOnCorruption ==
    HelperRan =>
        IF Len(sent) < HelperLen
        THEN /\ cst = "Corruption"
             /\ target = tpre
             /\ cursor = sent
        ELSE /\ cst = "OK"
             /\ target = HelperSets
             /\ cursor = Drop(sent, HelperLen)

\* three of an int32's four bytes were decoded into a record holding a string
C26_Witness ==
    /\ HelperRan
    /\ ctype = INT32_T
    /\ Len(sent) = 3
    /\ tpre = set_string_value(<<122>>, NullPB)
    /\ target = tpre
    /\ cst = "Corruption"

-----------------------------------------------------------------------------
(* Appends to a record that is not yet the collection. *)

\* the collection kind and the repeated field each append call goes to
AddCase ==
    [add_map_key |-> [kind |-> "map_value", field |-> "keys"],
     add_map_value |-> [kind |-> "map_value", field |-> "values"],
     add_set_elem |-> [kind |-> "set_value", field |-> "elems"],
     add_list_elem |-> [kind |-> "list_value", field |-> "elems"]]

\* a record of that kind whose only content is one cleared element there
OnlyNewElement(kind, field) ==
    CASE field = "keys" -> [NullPB EXCEPT !.value_case = kind, !.keys = <<NullPB>>]
      [] field = "values" -> [NullPB EXCEPT !.value_case = kind, !.values = <<NullPB>>]
      [] field = "elems" -> [NullPB EXCEPT !.value_case = kind, !.elems = <<NullPB>>]

\* C27: add_map_key(), add_map_value(), add_set_elem() and add_list_elem()
\* on a record that is null or holds another type do not fail: the record
\* becomes the collection of the call's kind, what it held is gone, and the
\* collection holds the new element and nothing else.
C27_AppendSelectsCollection ==
    (op \in DOMAIN AddCase /\ type(pre) # AddCase[op].kind) =>
        /\ ret.st = "OK"
        /\ ~IsNull(v)
        /\ type(v) = AddCase[op].kind
        /\ v = OnlyNewElement(AddCase[op].kind, AddCase[op].field)
        /\ ptr = ElemPtr(AddCase[op].field, 1)

\* an element was appended as to a set to a record that held a string
C27_Witness ==
    /\ op = "add_set_elem"
    /\ has(pre, "string_value")
    /\ pre.str # <<>>
    /\ v = SetPB(<<NullPB>>)

====
